---- MODULE Spec2Model ----
(***************************************************************************)
(* Model of the codewatch domain layer (src/codewatch/domain): the value   *)
(* objects PatternLocation, ConfidenceScore and QualifiedName, the pattern *)
(* entities KeeperPattern, HandlerPattern and PatternRelation, the calls a *)
(* client makes on them, and the repository, extractor and detector        *)
(* implementations of the tests and examples.                              *)
(*                                                                         *)
(* Strings are sequences of one-character strings.  Python floats are      *)
(* fixed-point numbers counted in millionths, with a separate NaN.  An     *)
(* object is a record whose cls field names its class; its identity (id()) *)
(* is its position in the heap.                                            *)
(***************************************************************************)
EXTENDS Integers, Sequences, FiniteSets, TLC

VARIABLES
    heap,   \* the live objects the client holds a reference to, by identity
    pend,   \* the call the client is about to make (SpecCtor, SpecExtract);
            \* the frame of each thread's call (SpecDetect)
    last,   \* the most recent call: operation, arguments and outcome
    rels,   \* the live PatternRelation objects, by identity
    dicts,  \* the live dict objects (relation metadata), by identity
    repo    \* the InMemoryPatternRepository object: its _patterns list

vars == <<heap, pend, last, rels, dicts, repo>>

----------------------------------------------------------------------------
(* Bounds of the model *)

MaxLine == 2        \* line arguments range over -1..MaxLine
MaxCol == 1         \* column arguments range over -1..MaxCol
MaxPathLen == 2     \* longest path string passed to PatternLocation
MaxNameLen == 3     \* longest package / name string passed to QualifiedName
MaxParseLen == 5    \* longest string passed to QualifiedName.parse
ConfMargin == 2     \* how far beyond the tolerance the confidence inputs go
MaxObjs == 2        \* most value objects and patterns held at once
MaxRels == 1        \* most PatternRelation objects held at once
MaxDicts == 1       \* most metadata dicts held at once
MaxBatch == 2       \* longest list passed to save_patterns
MaxSaved == 3       \* most entries in the repository

----------------------------------------------------------------------------
(* Strings *)

PathChars == {"a", ".", "/"}
NameChars == {"a", ".", " "}
Whitespace == {" "}

StrsUpTo(chars, n) == UNION {[1..k -> chars] : k \in 0..n}

\* str.strip(): drop leading and trailing whitespace
RECURSIVE LStrip(_)
LStrip(s) ==
    IF s # <<>> /\ Head(s) \in Whitespace THEN LStrip(Tail(s)) ELSE s

RECURSIVE RStrip(_)
RStrip(s) ==
    IF s # <<>> /\ s[Len(s)] \in Whitespace
    THEN RStrip(SubSeq(s, 1, Len(s) - 1))
    ELSE s

Strip(s) == RStrip(LStrip(s))

\* c in s
Contains(s, c) == \E i \in 1..Len(s) : s[i] = c

\* RFind looking for the first occurrence instead of the last (str.find)
RFind_First(s, c) ==
    IF Contains(s, c)
    THEN CHOOSE i \in 1..Len(s) :
            s[i] = c /\ \A j \in 1..(i - 1) : s[j] # c
    ELSE 0

\* s.rfind(c) as a 1-based position; 0 when c does not occur (Python: -1)
RFind(s, c) ==
    IF Contains(s, c)
    THEN CHOOSE i \in 1..Len(s) :
            s[i] = c /\ \A j \in (i + 1)..Len(s) : s[j] # c
    ELSE 0

\* phrase occurs in msg as a run of consecutive words (re.search of a literal)
Mentions(msg, phrase) ==
    \E i \in 0..(Len(msg) - Len(phrase)) :
        \A k \in 1..Len(phrase) : msg[i + k] = phrase[k]

----------------------------------------------------------------------------
(* Outcomes of a call *)

Ok(obj) == [ok |-> TRUE, obj |-> obj]
Raise(kind, msg) == [ok |-> FALSE, err |-> kind, msg |-> msg]

----------------------------------------------------------------------------
(* pathlib.Path: a path is the tuple of its parts *)

RECURSIVE SplitSep(_, _, _)
SplitSep(s, cur, acc) ==
    IF s = <<>> THEN Append(acc, cur)
    ELSE IF Head(s) = "/" THEN SplitSep(Tail(s), <<>>, Append(acc, cur))
    ELSE SplitSep(Tail(s), Append(cur, Head(s)), acc)

RECURSIVE LStripSep(_)
LStripSep(s) ==
    IF s # <<>> /\ Head(s) = "/" THEN LStripSep(Tail(s)) ELSE s

\* Path(s).parts on a POSIX system: the root ("/" or "//") if any, then the
\* components that are neither empty nor "."
PathOf(s) ==
    LET rel == LStripSep(s)
        nsep == Len(s) - Len(rel)
        root == IF nsep = 0 THEN <<>>
                ELSE IF nsep = 2 THEN << <<"/", "/">> >>
                ELSE << <<"/">> >>
        comps == SelectSeq(SplitSep(rel, <<>>, <<>>),
                           LAMBDA c : c # <<>> /\ c # <<".">>)
    IN  root \o comps

----------------------------------------------------------------------------
(* Python floats: millionths, or NaN.  Every comparison with NaN is false   *)
(* except !=, which is true.                                                *)

Fl(u) == [nan |-> FALSE, u |-> u]
NaN == [nan |-> TRUE, u |-> 0]

FLt(a, b) == ~a.nan /\ ~b.nan /\ a.u < b.u
FLe(a, b) == ~a.nan /\ ~b.nan /\ a.u <= b.u
FEq(a, b) == ~a.nan /\ ~b.nan /\ a.u = b.u
FNe(a, b) == ~FEq(a, b)
FNeg(a) == IF a.nan THEN a ELSE Fl(0 - a.u)
FAdd(a, b) == IF a.nan \/ b.nan THEN NaN ELSE Fl(a.u + b.u)

Zero == Fl(0)

----------------------------------------------------------------------------
(* exceptions.py: each error class with the classes it inherits from *)

\* Bases with a ValueObjectError that is no ValueError
Bases_NoValueError(kind) ==
    CASE kind = "CodewatchError" -> {"Exception"}
      [] kind = "ValueObjectError" -> {"CodewatchError"}
      [] kind = "InvalidLocationError" -> {"ValueObjectError"}
      [] kind = "InvalidConfidenceScoreError" -> {"ValueObjectError"}
      [] kind = "InvalidQualifiedNameError" -> {"ValueObjectError"}
      [] kind = "ExtractionError" -> {"CodewatchError"}
      [] kind = "StorageError" -> {"CodewatchError"}
      [] kind = "ConfigurationError" -> {"CodewatchError"}
      [] kind = "ValueError" -> {"Exception"}
      [] kind = "TypeError" -> {"Exception"}
      [] kind = "FrozenInstanceError" -> {"AttributeError"}
      [] kind = "AttributeError" -> {"Exception"}
      [] OTHER -> {}

Bases(kind) ==
    CASE kind = "CodewatchError" -> {"Exception"}
      [] kind = "ValueObjectError" -> {"CodewatchError", "ValueError"}
      [] kind = "InvalidLocationError" -> {"ValueObjectError"}
      [] kind = "InvalidConfidenceScoreError" -> {"ValueObjectError"}
      [] kind = "InvalidQualifiedNameError" -> {"ValueObjectError"}
      [] kind = "ExtractionError" -> {"CodewatchError"}
      [] kind = "StorageError" -> {"CodewatchError"}
      [] kind = "ConfigurationError" -> {"CodewatchError"}
      [] kind = "ValueError" -> {"Exception"}
      [] kind = "TypeError" -> {"Exception"}
      [] kind = "FrozenInstanceError" -> {"AttributeError"}
      [] kind = "AttributeError" -> {"Exception"}
      [] OTHER -> {}

RECURSIVE IsA(_, _)
IsA(kind, base) ==
    kind = base \/ \E b \in Bases(kind) : IsA(b, base)

----------------------------------------------------------------------------
(* value_objects/location.py *)

StrArg(s) == [type |-> "str", s |-> s]
PathNew(s) == [type |-> "Path", parts |-> PathOf(s)]

\* PatternLocationNew without the check that line_end >= line_start
PatternLocationNew_NoLineOrder(file_path, line_start, line_end, column_start, column_end) ==
    LET fp == IF file_path.type = "str" THEN PathNew(file_path.s) ELSE file_path
    IN  IF line_start < 1
        THEN Raise("InvalidLocationError",
                   <<"Line", "start", "must", "be", "positive">>)
        ELSE IF line_end < 1
        THEN Raise("InvalidLocationError",
                   <<"Line", "end", "must", "be", "positive">>)
        ELSE IF column_start < 0
        THEN Raise("InvalidLocationError",
                   <<"Column", "start", "must", "be", "non-negative">>)
        ELSE IF column_end < 0
        THEN Raise("InvalidLocationError",
                   <<"Column", "end", "must", "be", "non-negative">>)
        ELSE IF line_start = line_end /\ column_end < column_start
        THEN Raise("InvalidLocationError",
                   <<"Column", "end", "must", "be", ">=", "column", "start",
                     "on", "single", "line">>)
        ELSE IF fp.parts = <<>>
        THEN Raise("InvalidLocationError",
                   <<"File", "path", "cannot", "be", "empty">>)
        ELSE Ok([cls |-> "PatternLocation",
                 file_path |-> fp,
                 line_start |-> line_start,
                 line_end |-> line_end,
                 column_start |-> column_start,
                 column_end |-> column_end])

\* PatternLocationNew that checks the file path before the numbers
PatternLocationNew_PathFirst(file_path, line_start, line_end, column_start, column_end) ==
    LET fp == IF file_path.type = "str" THEN PathNew(file_path.s) ELSE file_path
    IN  IF fp.parts = <<>>
        THEN Raise("InvalidLocationError",
                   <<"File", "path", "cannot", "be", "empty">>)
        ELSE IF line_start < 1
        THEN Raise("InvalidLocationError",
                   <<"Line", "start", "must", "be", "positive">>)
        ELSE IF line_end < 1
        THEN Raise("InvalidLocationError",
                   <<"Line", "end", "must", "be", "positive">>)
        ELSE IF line_end < line_start
        THEN Raise("InvalidLocationError",
                   <<"Line", "end", "must", "be", ">=", "line", "start">>)
        ELSE IF column_start < 0
        THEN Raise("InvalidLocationError",
                   <<"Column", "start", "must", "be", "non-negative">>)
        ELSE IF column_end < 0
        THEN Raise("InvalidLocationError",
                   <<"Column", "end", "must", "be", "non-negative">>)
        ELSE IF line_start = line_end /\ column_end < column_start
        THEN Raise("InvalidLocationError",
                   <<"Column", "end", "must", "be", ">=", "column", "start",
                     "on", "single", "line">>)
        ELSE Ok([cls |-> "PatternLocation",
                 file_path |-> fp,
                 line_start |-> line_start,
                 line_end |-> line_end,
                 column_start |-> column_start,
                 column_end |-> column_end])

PatternLocationNew(file_path, line_start, line_end, column_start, column_end) ==
    LET fp == IF file_path.type = "str" THEN PathNew(file_path.s) ELSE file_path
    IN  IF line_start < 1
        THEN Raise("InvalidLocationError",
                   <<"Line", "start", "must", "be", "positive">>)
        ELSE IF line_end < 1
        THEN Raise("InvalidLocationError",
                   <<"Line", "end", "must", "be", "positive">>)
        ELSE IF line_end < line_start
        THEN Raise("InvalidLocationError",
                   <<"Line", "end", "must", "be", ">=", "line", "start">>)
        ELSE IF column_start < 0
        THEN Raise("InvalidLocationError",
                   <<"Column", "start", "must", "be", "non-negative">>)
        ELSE IF column_end < 0
        THEN Raise("InvalidLocationError",
                   <<"Column", "end", "must", "be", "non-negative">>)
        ELSE IF line_start = line_end /\ column_end < column_start
        THEN Raise("InvalidLocationError",
                   <<"Column", "end", "must", "be", ">=", "column", "start",
                     "on", "single", "line">>)
        ELSE IF fp.parts = <<>>
        THEN Raise("InvalidLocationError",
                   <<"File", "path", "cannot", "be", "empty">>)
        ELSE Ok([cls |-> "PatternLocation",
                 file_path |-> fp,
                 line_start |-> line_start,
                 line_end |-> line_end,
                 column_start |-> column_start,
                 column_end |-> column_end])

\* PatternLocationAtLine whose range ends at column 1
PatternLocationAtLine_ToColumnOne(file_path, line_number) ==
    PatternLocationNew(file_path, line_number, line_number, 0, 1)

PatternLocationAtLine(file_path, line_number) ==
    PatternLocationNew(file_path, line_number, line_number, 0, 0)

PatternLocationSinglePoint(file_path, line, column) ==
    PatternLocationNew(file_path, line, line, column, column)

----------------------------------------------------------------------------
(* value_objects/confidence.py *)

EPSILON == Fl(10)                  \* 0.00001
One == Fl(100000 * EPSILON.u)      \* 1.0

ConfidenceScoreHigh == Fl((9 * One.u) \div 10)     \* 0.9
ConfidenceScoreMedium == Fl((5 * One.u) \div 10)   \* 0.5
ConfidenceScoreLow == Fl((3 * One.u) \div 10)      \* 0.3

\* ConfidenceScoreNew with the tolerance bounds excluded (< for <=)
ConfidenceScoreNew_StrictTolerance(value) ==
    LET normalized_value ==
            IF FLt(FNeg(EPSILON), value) /\ FLt(value, Zero) THEN Zero
            ELSE IF FLt(One, value) /\ FLt(value, FAdd(One, EPSILON)) THEN One
            ELSE value
        stored == IF FNe(normalized_value, value) THEN normalized_value
                  ELSE value
    IN  IF ~(FLe(Zero, stored) /\ FLe(stored, One))
        THEN Raise("InvalidConfidenceScoreError",
                   <<"Confidence", "score", "must", "be", "between", "0.0",
                     "and", "1.0">>)
        ELSE Ok([cls |-> "ConfidenceScore", value |-> stored])

\* ConfidenceScoreNew that accepts a value within the tolerance as it is
ConfidenceScoreNew_NoClamp(value) ==
    IF ~(FLe(FNeg(EPSILON), value) /\ FLe(value, FAdd(One, EPSILON)))
    THEN Raise("InvalidConfidenceScoreError",
               <<"Confidence", "score", "must", "be", "between", "0.0",
                 "and", "1.0">>)
    ELSE Ok([cls |-> "ConfidenceScore", value |-> value])

ConfidenceScoreNew(value) ==
    LET normalized_value ==
            IF FLe(FNeg(EPSILON), value) /\ FLt(value, Zero) THEN Zero
            ELSE IF FLt(One, value) /\ FLe(value, FAdd(One, EPSILON)) THEN One
            ELSE value
        stored == IF FNe(normalized_value, value) THEN normalized_value
                  ELSE value
    IN  IF ~(FLe(Zero, stored) /\ FLe(stored, One))
        THEN Raise("InvalidConfidenceScoreError",
                   <<"Confidence", "score", "must", "be", "between", "0.0",
                     "and", "1.0">>)
        ELSE Ok([cls |-> "ConfidenceScore", value |-> stored])

----------------------------------------------------------------------------
(* value_objects/qualified_name.py *)

\* QualifiedNameNew that trims the name on the left only (lstrip for strip)
QualifiedNameNew_LStripName(package, name) ==
    LET normalized_package == Strip(package)
        normalized_name == LStrip(name)
        pkg == IF normalized_package # package THEN normalized_package
               ELSE package
        nm == IF normalized_name # name THEN normalized_name ELSE name
    IN  IF pkg = <<>>
        THEN Raise("InvalidQualifiedNameError",
                   <<"Package", "cannot", "be", "empty">>)
        ELSE IF nm = <<>>
        THEN Raise("InvalidQualifiedNameError",
                   <<"Name", "cannot", "be", "empty">>)
        ELSE Ok([cls |-> "QualifiedName", package |-> pkg, name |-> nm])

\* QualifiedNameNew without the check that the name is not empty
QualifiedNameNew_NoNameCheck(package, name) ==
    LET normalized_package == Strip(package)
        normalized_name == Strip(name)
        pkg == IF normalized_package # package THEN normalized_package
               ELSE package
        nm == IF normalized_name # name THEN normalized_name ELSE name
    IN  IF pkg = <<>>
        THEN Raise("InvalidQualifiedNameError",
                   <<"Package", "cannot", "be", "empty">>)
        ELSE Ok([cls |-> "QualifiedName", package |-> pkg, name |-> nm])

QualifiedNameNew(package, name) ==
    LET normalized_package == Strip(package)
        normalized_name == Strip(name)
        pkg == IF normalized_package # package THEN normalized_package
               ELSE package
        nm == IF normalized_name # name THEN normalized_name ELSE name
    IN  IF pkg = <<>>
        THEN Raise("InvalidQualifiedNameError",
                   <<"Package", "cannot", "be", "empty">>)
        ELSE IF nm = <<>>
        THEN Raise("InvalidQualifiedNameError",
                   <<"Name", "cannot", "be", "empty">>)
        ELSE Ok([cls |-> "QualifiedName", package |-> pkg, name |-> nm])

\* QualifiedNameParse that builds its result without the constructor's checks
QualifiedNameParse_NoValidate(qualified_name) ==
    LET qn == Strip(qualified_name)
        last_dot_index == RFind(qn, ".")
        package == SubSeq(qn, 1, last_dot_index - 1)
        name == SubSeq(qn, last_dot_index + 1, Len(qn))
    IN  IF qn = <<>>
        THEN Raise("InvalidQualifiedNameError",
                   <<"Qualified", "name", "cannot", "be", "empty">>)
        ELSE IF ~Contains(qn, ".")
        THEN Raise("InvalidQualifiedNameError",
                   <<"Qualified", "name", "must", "contain", "at", "least",
                     "one", "'.'", "separator">>)
        ELSE Ok([cls |-> "QualifiedName", package |-> Strip(package),
                 name |-> Strip(name)])

\* QualifiedNameParse that splits on the first dot
QualifiedNameParse_FirstDot(qualified_name) ==
    LET qn == Strip(qualified_name)
        first_dot_index == RFind_First(qn, ".")
        package == SubSeq(qn, 1, first_dot_index - 1)
        name == SubSeq(qn, first_dot_index + 1, Len(qn))
    IN  IF qn = <<>>
        THEN Raise("InvalidQualifiedNameError",
                   <<"Qualified", "name", "cannot", "be", "empty">>)
        ELSE IF ~Contains(qn, ".")
        THEN Raise("InvalidQualifiedNameError",
                   <<"Qualified", "name", "must", "contain", "at", "least",
                     "one", "'.'", "separator">>)
        ELSE QualifiedNameNew(package, name)

QualifiedNameParse(qualified_name) ==
    LET qn == Strip(qualified_name)
        last_dot_index == RFind(qn, ".")
        package == SubSeq(qn, 1, last_dot_index - 1)
        name == SubSeq(qn, last_dot_index + 1, Len(qn))
    IN  IF qn = <<>>
        THEN Raise("InvalidQualifiedNameError",
                   <<"Qualified", "name", "cannot", "be", "empty">>)
        ELSE IF ~Contains(qn, ".")
        THEN Raise("InvalidQualifiedNameError",
                   <<"Qualified", "name", "must", "contain", "at", "least",
                     "one", "'.'", "separator">>)
        ELSE QualifiedNameNew(package, name)

\* QualifiedNameStr that joins the components with '/'
QualifiedNameStr_Slash(self) == self.package \o <<"/">> \o self.name

\* QualifiedNameStr that writes the name first
QualifiedNameStr_NameFirst(self) == self.name \o <<".">> \o self.package

QualifiedNameStr(self) == self.package \o <<".">> \o self.name

----------------------------------------------------------------------------
(* The arguments a client passes *)

Lines == (0 - 1)..MaxLine
Cols == (0 - 1)..MaxCol
PathStrs == StrsUpTo(PathChars, MaxPathLen)
PathArgs == {StrArg(s) : s \in PathStrs} \cup {PathNew(s) : s \in PathStrs}
NameStrs == StrsUpTo(NameChars, MaxNameLen)
ParseStrs == StrsUpTo(NameChars, MaxParseLen)

ConfValues ==
    {Fl(u) : u \in (0 - EPSILON.u - ConfMargin)..ConfMargin}
    \cup {Fl(u) : u \in (One.u - ConfMargin)..(One.u + EPSILON.u + ConfMargin)}
    \cup {ConfidenceScoreHigh, ConfidenceScoreMedium, ConfidenceScoreLow, NaN}

Call(op, args) == [op |-> op, args |-> args]

CtorCalls ==
    {Call("PatternLocation", a) :
        a \in PathArgs \X Lines \X Lines \X Cols \X Cols}
    \cup {Call("at_line", a) : a \in PathArgs \X Lines}
    \cup {Call("single_point", a) : a \in PathArgs \X Lines \X Cols}
    \cup {Call("ConfidenceScore", <<v>>) : v \in ConfValues}
    \cup {Call("QualifiedName", a) : a \in NameStrs \X NameStrs}
    \cup {Call("parse", <<s>>) : s \in ParseStrs}

NoCall == Call("none", <<>>)

----------------------------------------------------------------------------
(* A call returns or raises.  A returned object is a new object: it gets   *)
(* the next free identity.  A raised exception leaves the client with no   *)
(* reference to the object under construction.  of is the identity of the  *)
(* object the call was made on, 0 for a constructor.                       *)

Returned(op, args, of, r) ==
    /\ heap' = IF r.ok THEN Append(heap, r.obj) ELSE heap
    /\ last' = [op |-> op, args |-> args, of |-> of, res |-> r,
                id |-> IF r.ok THEN Len(heap) + 1 ELSE 0]

NoRepo == [_patterns |-> <<>>]

NoLast == [op |-> "none", args |-> <<>>, of |-> 0, res |-> Ok(<<>>), id |-> 0]

----------------------------------------------------------------------------
(* SpecCtor: one constructor call with arguments drawn from the full sets, *)
(* then the calls made on its result.                                       *)

InitCtor ==
    /\ heap = <<>>
    /\ pend \in CtorCalls
    /\ last = NoLast
    /\ rels = <<>>
    /\ dicts = <<>>
    /\ repo = NoRepo

CallPatternLocation ==
    /\ pend.op = "PatternLocation"
    /\ Returned(pend.op, pend.args, 0,
                PatternLocationNew(pend.args[1], pend.args[2], pend.args[3],
                                   pend.args[4], pend.args[5]))
    /\ pend' = NoCall
    /\ UNCHANGED <<rels, dicts, repo>>

CallAtLine ==
    /\ pend.op = "at_line"
    /\ Returned(pend.op, pend.args, 0,
                PatternLocationAtLine(pend.args[1], pend.args[2]))
    /\ pend' = NoCall
    /\ UNCHANGED <<rels, dicts, repo>>

CallSinglePoint ==
    /\ pend.op = "single_point"
    /\ Returned(pend.op, pend.args, 0,
                PatternLocationSinglePoint(pend.args[1], pend.args[2],
                                           pend.args[3]))
    /\ pend' = NoCall
    /\ UNCHANGED <<rels, dicts, repo>>

CallConfidenceScore ==
    /\ pend.op = "ConfidenceScore"
    /\ Returned(pend.op, pend.args, 0, ConfidenceScoreNew(pend.args[1]))
    /\ pend' = NoCall
    /\ UNCHANGED <<rels, dicts, repo>>

CallQualifiedName ==
    /\ pend.op = "QualifiedName"
    /\ Returned(pend.op, pend.args, 0,
                QualifiedNameNew(pend.args[1], pend.args[2]))
    /\ pend' = NoCall
    /\ UNCHANGED <<rels, dicts, repo>>

CallParse ==
    /\ pend.op = "parse"
    /\ Returned(pend.op, pend.args, 0, QualifiedNameParse(pend.args[1]))
    /\ pend' = NoCall
    /\ UNCHANGED <<rels, dicts, repo>>

\* QualifiedName.parse(str(q)) on the QualifiedName q just obtained
CallParseStr ==
    /\ last.op \in {"QualifiedName", "parse"}
    /\ last.res.ok
    /\ LET s == QualifiedNameStr(heap[last.id])
       IN  Returned("parse_str", <<s>>, last.id, QualifiedNameParse(s))
    /\ UNCHANGED <<pend, rels, dicts, repo>>

NextCtor ==
    \/ CallPatternLocation
    \/ CallAtLine
    \/ CallSinglePoint
    \/ CallConfidenceScore
    \/ CallQualifiedName
    \/ CallParse
    \/ CallParseStr

SpecCtor == InitCtor /\ [][NextCtor]_vars

----------------------------------------------------------------------------
(* SpecCtor: properties of the value-object constructors *)

IsTrimmed(s) ==
    s = <<>> \/ (s[1] \notin Whitespace /\ s[Len(s)] \notin Whitespace)

AllWhitespace(s) == \A i \in 1..Len(s) : s[i] \in Whitespace

\* t is s with whitespace removed from both ends and nothing else changed
IsTrimOf(t, s) ==
    /\ IsTrimmed(t)
    /\ \E i \in 0..Len(s) : \E j \in i..Len(s) :
          /\ t = SubSeq(s, i + 1, j)
          /\ AllWhitespace(SubSeq(s, 1, i))
          /\ AllWhitespace(SubSeq(s, j + 1, Len(s)))

NumParts(file_path) ==
    IF file_path.type = "str" THEN Len(PathOf(file_path.s))
    ELSE Len(file_path.parts)

\* C2: PatternLocation(file_path, line_start, line_end, column_start,
\* column_end) succeeds if and only if line_start >= 1, line_end >=
\* line_start, both columns >= 0, column_end >= column_start when the two
\* lines are equal, and file_path has at least one component; on success the
\* four numbers read back as given and the object is the one returned;
\* otherwise the call raises InvalidLocationError.
C2_LocationConstruction ==
    last.op = "PatternLocation" =>
        LET a == last.args
            valid == /\ a[2] >= 1
                     /\ a[3] >= a[2]
                     /\ a[4] >= 0
                     /\ a[5] >= 0
                     /\ (a[2] = a[3] => a[5] >= a[4])
                     /\ NumParts(a[1]) >= 1
        IN  /\ last.res.ok <=> valid
            /\ last.res.ok =>
                  /\ last.id \in 1..Len(heap)
                  /\ heap[last.id].cls = "PatternLocation"
                  /\ heap[last.id].line_start = a[2]
                  /\ heap[last.id].line_end = a[3]
                  /\ heap[last.id].column_start = a[4]
                  /\ heap[last.id].column_end = a[5]
            /\ ~last.res.ok =>
                  /\ last.res.err = "InvalidLocationError"
                  /\ heap = <<>>

\* a multi-line location whose column_end is below its column_start
C2_Witness ==
    /\ last.op = "PatternLocation"
    /\ last.res.ok
    /\ heap[last.id].line_end > heap[last.id].line_start
    /\ heap[last.id].column_end < heap[last.id].column_start

\* C3: ConfidenceScore(c) stores 0.0 for c in [-1e-5, 0), 1.0 for c in
\* (1.0, 1+1e-5], c itself for c in [0.0, 1.0], and raises
\* InvalidConfidenceScoreError, leaving no instance, for c < -1e-5 and for
\* c > 1+1e-5.
C3_ConfidenceNormalization ==
    last.op = "ConfidenceScore" =>
        LET c == last.args[1]
            lo == FNeg(EPSILON)
            hi == FAdd(One, EPSILON)
        IN  /\ (FLe(lo, c) /\ FLt(c, Zero)) =>
                  last.res.ok /\ heap[last.id].value = Zero
            /\ (FLt(One, c) /\ FLe(c, hi)) =>
                  last.res.ok /\ heap[last.id].value = One
            /\ (FLe(Zero, c) /\ FLe(c, One)) =>
                  last.res.ok /\ heap[last.id].value = c
            /\ (FLt(c, lo) \/ FLt(hi, c)) =>
                  /\ ~last.res.ok
                  /\ last.res.err = "InvalidConfidenceScoreError"
                  /\ heap = <<>>

\* a value at the far edge of the upper tolerance was stored as 1.0
C3_Witness ==
    /\ last.op = "ConfidenceScore"
    /\ last.args[1] = FAdd(One, EPSILON)
    /\ last.res.ok
    /\ heap[last.id].value = One

C5_ParseSplitsAtLastDot ==
    (last.op = "parse" /\ last.res.ok) =>
        \E t \in StrsUpTo(NameChars, Len(last.args[1])) :
            /\ IsTrimOf(t, last.args[1])
            /\ \E i \in 1..Len(t) :
                  /\ t[i] = "."
                  /\ \A j \in (i + 1)..Len(t) : t[j] # "."
                  /\ IsTrimOf(heap[last.id].package, SubSeq(t, 1, i - 1))
                  /\ IsTrimOf(heap[last.id].name, SubSeq(t, i + 1, Len(t)))

\* a parse whose package keeps an earlier dot: 'a.a.a' gives ('a.a', 'a')
C5_Witness ==
    /\ last.op = "parse"
    /\ last.res.ok
    /\ last.args[1] = <<"a", ".", "a", ".", "a">>
    /\ heap[last.id].package = <<"a", ".", "a">>
    /\ heap[last.id].name = <<"a">>

\* C6: QualifiedName.parse raises InvalidQualifiedNameError when the input
\* is empty after trimming, when it has no '.', and when the text before or
\* after its last '.' is empty after trimming; a QualifiedName it returns
\* has a non-empty package and a non-empty name.
C6_ParseRejects ==
    last.op = "parse" =>
        LET s == last.args[1]
            noText == AllWhitespace(s)
            noDot == ~Contains(s, ".")
            emptySide ==
                \E i \in 1..Len(s) :
                    /\ s[i] = "."
                    /\ \A j \in (i + 1)..Len(s) : s[j] # "."
                    /\ \/ AllWhitespace(SubSeq(s, 1, i - 1))
                       \/ AllWhitespace(SubSeq(s, i + 1, Len(s)))
        IN  /\ (noText \/ noDot \/ emptySide) =>
                  /\ ~last.res.ok
                  /\ last.res.err = "InvalidQualifiedNameError"
                  /\ heap = <<>>
            /\ last.res.ok =>
                  /\ heap[last.id].package # <<>>
                  /\ heap[last.id].name # <<>>

\* a string of dots only was rejected
C6_Witness ==
    /\ last.op = "parse"
    /\ last.args[1] = <<".", ".", ".">>
    /\ ~last.res.ok

----------------------------------------------------------------------------
(* enums.py *)

Framework == {"cosmos_sdk", "ethereum", "polkadot"}
PatternType == {"keeper", "message_handler", "query_handler", "validator"}
RelationType == {"calls", "depends_on", "implements", "inherits_from"}

None == "None"

----------------------------------------------------------------------------
(* entities/keeper.py, entities/handler.py: the generated __init__ stores   *)
(* the keyword arguments and runs no check                                   *)

\* KeeperPatternNew with a __post_init__ that runs the check of validate()
KeeperPatternNew_Validating(location, confidence, pattern_type, framework, keeper_name, store_keys, dependencies) ==
    IF store_keys = <<>>
    THEN Raise("ExtractionError",
               <<"Keeper", "must", "have", "at", "least", "one", "store",
                 "key">>)
    ELSE Ok([cls |-> "KeeperPattern",
             location |-> location,
             confidence |-> confidence,
             pattern_type |-> pattern_type,
             framework |-> framework,
             keeper_name |-> keeper_name,
             store_keys |-> store_keys,
             dependencies |-> dependencies])

KeeperPatternNew(location,confidence, pattern_type, framework, keeper_name, store_keys, dependencies) ==
    Ok([cls |-> "KeeperPattern",
        location |-> location,
        confidence |-> confidence,
        pattern_type |-> pattern_type,
        framework |-> framework,
        keeper_name |-> keeper_name,
        store_keys |-> store_keys,
        dependencies |-> dependencies])

\* KeeperPatternValidate that tests dependencies in place of store_keys
KeeperPatternValidate_Deps(self) ==
    IF self.dependencies = <<>>
    THEN Raise("ExtractionError",
               <<"Keeper", "must", "have", "at", "least", "one", "store",
                 "key">>)
    ELSE Ok(None)

\* KeeperPatternValidate that also requires pattern_type to be KEEPER
KeeperPatternValidate_TypeChecked(self) ==
    IF self.store_keys = <<>> \/ self.pattern_type # "keeper"
    THEN Raise("ExtractionError",
               <<"Keeper", "must", "have", "at", "least", "one", "store",
                 "key">>)
    ELSE Ok(None)

KeeperPatternValidate(self) ==
    IF self.store_keys = <<>>
    THEN Raise("ExtractionError",
               <<"Keeper", "must", "have", "at", "least", "one", "store",
                 "key">>)
    ELSE Ok(None)

HandlerPatternNew(location, confidence, pattern_type, framework, handler_name, handler_type, message_type, keeper_dependencies) ==
    Ok([cls |-> "HandlerPattern",
        location |-> location,
        confidence |-> confidence,
        pattern_type |-> pattern_type,
        framework |-> framework,
        handler_name |-> handler_name,
        handler_type |-> handler_type,
        message_type |-> message_type,
        keeper_dependencies |-> keeper_dependencies])

HandlerPatternValidate(self) == Ok(None)

----------------------------------------------------------------------------
(* @dataclass(frozen=True): the generated __eq__ and __hash__ *)

\* the __eq__ of a class declared with eq=False: no two objects are equal
DataclassEq_Identity(x, y) == FALSE

\* __eq__: the same class and equal tuples of fields, nested value objects
\* compared by their own __eq__
RECURSIVE DataclassEq(_, _)
DataclassEq(x, y) ==
    /\ x.cls = y.cls
    /\ CASE x.cls = "PatternLocation" ->
              /\ x.file_path.parts = y.file_path.parts
              /\ x.line_start = y.line_start
              /\ x.line_end = y.line_end
              /\ x.column_start = y.column_start
              /\ x.column_end = y.column_end
         [] x.cls = "ConfidenceScore" -> FEq(x.value, y.value)
         [] x.cls = "QualifiedName" ->
              /\ x.package = y.package
              /\ x.name = y.name
         [] x.cls = "KeeperPattern" ->
              /\ DataclassEq(x.location, y.location)
              /\ DataclassEq(x.confidence, y.confidence)
              /\ x.pattern_type = y.pattern_type
              /\ x.framework = y.framework
              /\ DataclassEq(x.keeper_name, y.keeper_name)
              /\ x.store_keys = y.store_keys
              /\ Len(x.dependencies) = Len(y.dependencies)
              /\ \A i \in 1..Len(x.dependencies) :
                    DataclassEq(x.dependencies[i], y.dependencies[i])
         [] x.cls = "HandlerPattern" ->
              /\ DataclassEq(x.location, y.location)
              /\ DataclassEq(x.confidence, y.confidence)
              /\ x.pattern_type = y.pattern_type
              /\ x.framework = y.framework
              /\ DataclassEq(x.handler_name, y.handler_name)
              /\ x.handler_type = y.handler_type
              /\ DataclassEq(x.message_type, y.message_type)
              /\ Len(x.keeper_dependencies) = Len(y.keeper_dependencies)
              /\ \A i \in 1..Len(x.keeper_dependencies) :
                    DataclassEq(x.keeper_dependencies[i],
                                y.keeper_dependencies[i])

\* hash(): a number computed from the value alone
HashMod == 2^13 - 1

ChCode(c) ==
    CASE c = " " -> 32 [] c = "." -> 46 [] c = "/" -> 47 [] c = "a" -> 97

WordCode(w) ==
    CASE w = "cosmos_sdk" -> 1 [] w = "ethereum" -> 2 [] w = "polkadot" -> 3
      [] w = "keeper" -> 4 [] w = "message_handler" -> 5
      [] w = "query_handler" -> 6 [] w = "validator" -> 7
      [] w = "calls" -> 8 [] w = "depends_on" -> 9 [] w = "implements" -> 10
      [] w = "inherits_from" -> 11 [] w = "message" -> 12 [] w = "query" -> 13
      [] w = "event" -> 14 [] w = "bank" -> 15 [] w = "supply" -> 16

RECURSIVE HashTuple(_)
HashTuple(hs) ==
    IF hs = <<>> THEN 1
    ELSE (31 * HashTuple(SubSeq(hs, 1, Len(hs) - 1)) + hs[Len(hs)]) % HashMod

HashInt(n) == n % HashMod
HashFloat(f) == f.u % HashMod
HashStr(s) == HashTuple([i \in 1..Len(s) |-> ChCode(s[i])])
HashPath(p) == HashTuple([i \in 1..Len(p.parts) |-> HashStr(p.parts[i])])

\* __hash__: the hash of the tuple of fields
RECURSIVE DataclassHash(_)
DataclassHash(x) ==
    CASE x.cls = "PatternLocation" ->
            HashTuple(<<HashPath(x.file_path), HashInt(x.line_start),
                        HashInt(x.line_end), HashInt(x.column_start),
                        HashInt(x.column_end)>>)
      [] x.cls = "ConfidenceScore" -> HashTuple(<<HashFloat(x.value)>>)
      [] x.cls = "QualifiedName" ->
            HashTuple(<<HashStr(x.package), HashStr(x.name)>>)
      [] x.cls = "KeeperPattern" ->
            HashTuple(<<DataclassHash(x.location),
                        DataclassHash(x.confidence),
                        WordCode(x.pattern_type), WordCode(x.framework),
                        DataclassHash(x.keeper_name),
                        HashTuple([i \in 1..Len(x.store_keys) |->
                                      WordCode(x.store_keys[i])]),
                        HashTuple([i \in 1..Len(x.dependencies) |->
                                      DataclassHash(x.dependencies[i])])>>)
      [] x.cls = "HandlerPattern" ->
            HashTuple(<<DataclassHash(x.location),
                        DataclassHash(x.confidence),
                        WordCode(x.pattern_type), WordCode(x.framework),
                        DataclassHash(x.handler_name),
                        WordCode(x.handler_type),
                        DataclassHash(x.message_type),
                        HashTuple([i \in 1..Len(x.keeper_dependencies) |->
                                      DataclassHash(x.keeper_dependencies[i])])>>)

\* a == b for two references: the same object, or __eq__ says so
PyEq(h, i, j) == i = j \/ DataclassEq(h[i], h[j])

\* set.add: i goes in unless an element with the same hash compares equal
PySetAdd(h, S, i) ==
    IF \E j \in S : DataclassHash(h[j]) = DataclassHash(h[i]) /\ PyEq(h, j, i)
    THEN S
    ELSE S \cup {i}

----------------------------------------------------------------------------
(* SpecHeap: a client that builds value objects and patterns one after the  *)
(* other, keeps them, validates patterns and puts objects into sets.  The   *)
(* arguments of a call are the usual ones, or the usual ones with one of    *)
(* them replaced.  A set is built from a held object and the object         *)
(* obtained last.                                                           *)

Varied(base, S) ==
    {t \in S : \A i, j \in 1..Len(base) :
        (t[i] # base[i] /\ t[j] # base[j]) => i = j}

HeapPaths ==
    {StrArg(<<"a">>), StrArg(<<"/">>), StrArg(<<>>), StrArg(<<".">>)}
HeapLines == {0, 1, 2}
HeapCols == {0 - 1, 0, 1}
HeapLocArgs ==
    Varied(<<StrArg(<<"a">>), 1, 1, 0, 0>>,
           HeapPaths \X HeapLines \X HeapLines \X HeapCols \X HeapCols)
    \cup {<<PathNew(<<"a">>), 1, 1, 0, 0>>}

HeapConfArgs ==
    {ConfidenceScoreHigh, Zero, One, NaN,
     FNeg(EPSILON), FAdd(One, EPSILON),
     FNeg(FAdd(EPSILON, EPSILON)), FAdd(One, FAdd(EPSILON, EPSILON))}

HeapNames == {<<"a">>, <<" ", "a">>, <<".">>, <<>>, <<" ">>}
HeapNameArgs == Varied(<<<<"a">>, <<"a">>>>, HeapNames \X HeapNames)

UsualLocation == PatternLocationAtLine(StrArg(<<"a">>), 1).obj
UsualConfidence == ConfidenceScoreNew(ConfidenceScoreHigh).obj
UsualName == QualifiedNameNew(<<"a">>, <<"a">>).obj

SampleLocations ==
    {PatternLocationAtLine(StrArg(<<"a">>), n).obj : n \in 1..2}
SampleConfidences ==
    {ConfidenceScoreNew(v).obj :
        v \in {ConfidenceScoreHigh, ConfidenceScoreMedium}}
SampleNames ==
    {QualifiedNameNew(<<"a">>, n).obj : n \in {<<"a">>, <<".">>}}
SampleStoreKeys == {<<>>, <<"bank">>, <<"bank", "supply">>}
SampleDeps == {<<>>, <<UsualName>>}
SamplePatternTypes == {"keeper", "message_handler"}
SampleFrameworks == {"cosmos_sdk", "ethereum"}
HandlerTypes == {"message", "query", "event"}

KeeperArgs ==
    Varied(<<UsualLocation, UsualConfidence, "keeper", "cosmos_sdk",
             UsualName, <<"bank">>, <<>>>>,
           SampleLocations \X SampleConfidences \X SamplePatternTypes
           \X SampleFrameworks \X SampleNames \X SampleStoreKeys
           \X SampleDeps)

HandlerArgs ==
    Varied(<<UsualLocation, UsualConfidence, "message_handler", "cosmos_sdk",
             UsualName, "message", UsualName, <<>>>>,
           {UsualLocation} \X {UsualConfidence} \X {"message_handler"}
           \X {"cosmos_sdk"} \X SampleNames \X HandlerTypes
           \X SampleNames \X SampleDeps)

\* a method call on a held object: nothing is created
Called(op, args, of, r) ==
    /\ last' = [op |-> op, args |-> args, of |-> of, res |-> r, id |-> 0]
    /\ UNCHANGED heap

InitHeap ==
    /\ heap = <<>>
    /\ pend = NoCall
    /\ last = NoLast
    /\ rels = <<>>
    /\ dicts = <<>>
    /\ repo = NoRepo

NewPatternLocation ==
    /\ Len(heap) < MaxObjs
    /\ \E a \in HeapLocArgs :
          Returned("PatternLocation", <<>>, 0,
                   PatternLocationNew(a[1], a[2], a[3], a[4], a[5]))
    /\ UNCHANGED <<pend, rels, dicts, repo>>

NewConfidenceScore ==
    /\ Len(heap) < MaxObjs
    /\ \E v \in HeapConfArgs :
          Returned("ConfidenceScore", <<>>, 0, ConfidenceScoreNew(v))
    /\ UNCHANGED <<pend, rels, dicts, repo>>

NewQualifiedName ==
    /\ Len(heap) < MaxObjs
    /\ \E a \in HeapNameArgs :
          Returned("QualifiedName", <<>>, 0, QualifiedNameNew(a[1], a[2]))
    /\ UNCHANGED <<pend, rels, dicts, repo>>

NewKeeperPattern ==
    /\ Len(heap) < MaxObjs
    /\ \E a \in KeeperArgs :
          Returned("KeeperPattern", <<>>, 0,
                   KeeperPatternNew(a[1], a[2], a[3], a[4], a[5], a[6], a[7]))
    /\ UNCHANGED <<pend, rels, dicts, repo>>

NewHandlerPattern ==
    /\ Len(heap) < MaxObjs
    /\ \E a \in HandlerArgs :
          Returned("HandlerPattern", <<>>, 0,
                   HandlerPatternNew(a[1], a[2], a[3], a[4], a[5], a[6],
                                     a[7], a[8]))
    /\ UNCHANGED <<pend, rels, dicts, repo>>

\* p.validate() on a held pattern
Validate ==
    /\ \E i \in 1..Len(heap) :
          \/ /\ heap[i].cls = "KeeperPattern"
             /\ Called("validate", <<>>, i, KeeperPatternValidate(heap[i]))
          \/ /\ heap[i].cls = "HandlerPattern"
             /\ Called("validate", <<>>, i, HandlerPatternValidate(heap[i]))
    /\ UNCHANGED <<pend, rels, dicts, repo>>

\* {x, y} for a held object x and the object y obtained last (x may be y)
MakeSet ==
    /\ \E i \in 1..Len(heap) : \E j \in {Len(heap)} :
          Called("set", <<i, j>>, 0,
                 Ok(PySetAdd(heap, PySetAdd(heap, {}, i), j)))
    /\ UNCHANGED <<pend, rels, dicts, repo>>

NextHeap ==
    \/ NewPatternLocation
    \/ NewConfidenceScore
    \/ NewQualifiedName
    \/ NewKeeperPattern
    \/ NewHandlerPattern
    \/ Validate
    \/ MakeSet

SpecHeap == InitHeap /\ [][NextHeap]_vars

----------------------------------------------------------------------------
(* entities/pattern.py: PatternRelation.  source and target are references  *)
(* to held patterns, metadata is a reference to a held dict.                *)

\* PatternRelationNew that compares source and target with == in place of is
PatternRelationNew_ByValue(source, target, relation_type, metadata) ==
    IF PyEq(heap, source, target)
    THEN Raise("ExtractionError",
               <<"Pattern", "relation", "source", "and", "target", "cannot",
                 "be", "the", "same", "pattern">>)
    ELSE Ok([cls |-> "PatternRelation",
             source |-> source,
             target |-> target,
             relation_type |-> relation_type,
             metadata |-> metadata])

PatternRelationNew(source, target, relation_type, metadata) ==
    IF source = target
    THEN Raise("ExtractionError",
               <<"Pattern", "relation", "source", "and", "target", "cannot",
                 "be", "the", "same", "pattern">>)
    ELSE Ok([cls |-> "PatternRelation",
             source |-> source,
             target |-> target,
             relation_type |-> relation_type,
             metadata |-> metadata])

----------------------------------------------------------------------------
(* SpecRel: a client that builds a few patterns and metadata dicts and      *)
(* relates the patterns to each other.                                      *)

RelPatternArgs ==
    {<<UsualLocation, UsualConfidence, "keeper", "cosmos_sdk", UsualName, k,
       <<>>>> : k \in {<<>>, <<"bank">>}}

SampleDicts == {<<>>, <<<<"reason", "x">>>>}

InitRel ==
    /\ heap = <<>>
    /\ pend = NoCall
    /\ last = NoLast
    /\ rels = <<>>
    /\ dicts = <<>>
    /\ repo = NoRepo

RelNewKeeperPattern ==
    /\ Len(heap) < MaxObjs
    /\ \E a \in RelPatternArgs :
          Returned("KeeperPattern", <<>>, 0,
                   KeeperPatternNew(a[1], a[2], a[3], a[4], a[5], a[6], a[7]))
    /\ UNCHANGED <<pend, rels, dicts, repo>>

\* a dict display: a new dict object
NewDict ==
    /\ Len(dicts) < MaxDicts
    /\ \E d \in SampleDicts :
          /\ dicts' = Append(dicts, d)
          /\ last' = [op |-> "dict", args |-> <<>>, of |-> 0,
                      res |-> Ok(d), id |-> Len(dicts) + 1]
    /\ UNCHANGED <<heap, pend, rels, repo>>

NewPatternRelation ==
    /\ Len(rels) < MaxRels
    /\ \E s \in 1..Len(heap) : \E t \in 1..Len(heap) :
       \E rt \in RelationType : \E m \in 1..Len(dicts) :
          LET r == PatternRelationNew(s, t, rt, m)
          IN  /\ rels' = IF r.ok THEN Append(rels, r.obj) ELSE rels
              /\ last' = [op |-> "PatternRelation", args |-> <<s, t, rt, m>>,
                          of |-> 0, res |-> r,
                          id |-> IF r.ok THEN Len(rels) + 1 ELSE 0]
    /\ UNCHANGED <<heap, pend, dicts, repo>>

NextRel ==
    \/ RelNewKeeperPattern
    \/ NewDict
    \/ NewPatternRelation

SpecRel == InitRel /\ [][NextRel]_vars

----------------------------------------------------------------------------
(* Properties of the round trip, of the entities and of equality *)

\* C7: QualifiedName.parse(str(q)) succeeds and equals q for every
\* QualifiedName q (its package and name are non-empty and trimmed) whose
\* name contains no '.'; the package may contain dots.
C7_StrParseRoundTrip ==
    (last.op = "parse_str" /\ ~Contains(heap[last.of].name, ".")) =>
        /\ last.res.ok
        /\ last.id # last.of
        /\ PyEq(heap, last.id, last.of)

\* the round trip of a name whose package contains a dot
C7_Witness ==
    /\ last.op = "parse_str"
    /\ Contains(heap[last.of].package, ".")
    /\ ~Contains(heap[last.of].name, ".")
    /\ last.res.ok
    /\ PyEq(heap, last.id, last.of)

VOClasses == {"PatternLocation", "ConfidenceScore", "QualifiedName"}

SatisfiesInvariants(x) ==
    CASE x.cls = "PatternLocation" ->
            /\ x.line_start >= 1
            /\ x.line_end >= x.line_start
            /\ x.column_start >= 0
            /\ x.column_end >= 0
            /\ (x.line_start = x.line_end => x.column_end >= x.column_start)
            /\ Len(x.file_path.parts) >= 1
      [] x.cls = "ConfidenceScore" ->
            /\ ~x.value.nan
            /\ 0 <= x.value.u
            /\ x.value.u <= One.u
      [] x.cls = "QualifiedName" ->
            /\ x.package # <<>>
            /\ x.name # <<>>
            /\ IsTrimmed(x.package)
            /\ IsTrimmed(x.name)
      [] OTHER -> TRUE

\* C1: after every step, each PatternLocation, ConfidenceScore and
\* QualifiedName the client holds satisfies the invariants of its class, and
\* a constructor call that raised has added no object to those the client
\* held before it.
C1_ValidByConstruction ==
    [][/\ \A i \in 1..Len(heap') : SatisfiesInvariants(heap'[i])
       /\ (last'.op \in VOClasses /\ ~last'.res.ok) => heap' = heap]_vars

\* the client holds a value object, and the construction attempted after it,
\* of another class, failed
C1_Witness ==
    /\ Len(heap) >= 1
    /\ heap[Len(heap)].cls \in VOClasses
    /\ last.op \in VOClasses
    /\ last.op # heap[Len(heap)].cls
    /\ ~last.res.ok

\* C8: KeeperPattern.validate() raises if and only if store_keys is empty;
\* what it raises is an ExtractionError whose message mentions 'store key'.
C8_KeeperValidate ==
    (last.op = "validate" /\ heap[last.of].cls = "KeeperPattern") =>
        /\ ~last.res.ok <=> Len(heap[last.of].store_keys) = 0
        /\ ~last.res.ok =>
              /\ last.res.err = "ExtractionError"
              /\ Mentions(last.res.msg, <<"store", "key">>)

\* validate() returned on a keeper that has store keys
C8_Witness ==
    /\ last.op = "validate"
    /\ heap[last.of].cls = "KeeperPattern"
    /\ Len(heap[last.of].store_keys) >= 1
    /\ last.res.ok

\* C9: PatternRelation(source, target, ...) raises if and only if source and
\* target are the same object; what it raises is an ExtractionError whose
\* message mentions 'source and target'; two different objects are accepted
\* also when they are equal by value.
C9_RelationIdentityCheck ==
    last.op = "PatternRelation" =>
        /\ ~last.res.ok <=> last.args[1] = last.args[2]
        /\ ~last.res.ok =>
              /\ last.res.err = "ExtractionError"
              /\ Mentions(last.res.msg, <<"source", "and", "target">>)
              /\ last.id = 0
        /\ last.res.ok =>
              /\ rels[last.id].source = last.args[1]
              /\ rels[last.id].target = last.args[2]

\* a relation between two different patterns that are equal by value
C9_Witness ==
    /\ last.op = "PatternRelation"
    /\ last.res.ok
    /\ last.args[1] # last.args[2]
    /\ DataclassEq(heap[last.args[1]], heap[last.args[2]])

\* C10: two held instances of one class with identical field values are
\* equal and have the same hash, and the set built from the two has one
\* element; two instances that differ in a field, or in their class, are
\* not equal, and the set built from them has two elements.
C10_StructuralEquality ==
    /\ \A i \in 1..Len(heap) : \A j \in 1..Len(heap) :
          IF heap[i].cls = heap[j].cls /\ heap[i] = heap[j]
          THEN /\ PyEq(heap, i, j)
               /\ DataclassHash(heap[i]) = DataclassHash(heap[j])
          ELSE ~PyEq(heap, i, j)
    /\ last.op = "set" =>
          LET i == last.args[1]
              j == last.args[2]
          IN  Cardinality(last.res.obj) =
                 IF heap[i].cls = heap[j].cls /\ heap[i] = heap[j]
                 THEN 1 ELSE 2

\* two different keeper objects with identical fields went into one set
C10_Witness ==
    /\ last.op = "set"
    /\ last.args[1] # last.args[2]
    /\ heap[last.args[1]].cls = "KeeperPattern"
    /\ heap[last.args[2]].cls = "KeeperPattern"
    /\ heap[last.args[1]] = heap[last.args[2]]
    /\ Cardinality(last.res.obj) = 1

----------------------------------------------------------------------------
(* dict and the methods @dataclass(frozen=True) generates for               *)
(* PatternRelation.  A dict is a sequence of <<key, value>> pairs in        *)
(* insertion order, with no key twice.                                      *)

\* d1 == d2 for two dicts: the same keys with the same values, in any order
DictEq(d1, d2) ==
    {d1[i] : i \in 1..Len(d1)} = {d2[i] : i \in 1..Len(d2)}

\* hash(d) for a dict: dict has no __hash__
DictHash(d) == Raise("TypeError", <<"unhashable", "type", "dict">>)

\* d[k] = v
DictSetItem(d, k, v) ==
    IF \E i \in 1..Len(d) : d[i][1] = k
    THEN [i \in 1..Len(d) |-> IF d[i][1] = k THEN <<k, v>> ELSE d[i]]
    ELSE Append(d, <<k, v>>)

\* PatternRelationEq that compares the endpoints by identity
PatternRelationEq_ByIdentity(h, ds, x, y) ==
    /\ x.source = y.source
    /\ x.target = y.target
    /\ x.relation_type = y.relation_type
    /\ (x.metadata = y.metadata \/ DictEq(ds[x.metadata], ds[y.metadata]))

\* __eq__ of PatternRelation: the tuples of the four fields are equal
PatternRelationEq(h, ds, x, y) ==
    /\ PyEq(h, x.source, y.source)
    /\ PyEq(h, x.target, y.target)
    /\ x.relation_type = y.relation_type
    /\ (x.metadata = y.metadata \/ DictEq(ds[x.metadata], ds[y.metadata]))

\* __hash__ of PatternRelation: hash((source, target, relation_type,
\* metadata)), which hashes the four fields in this order
PatternRelationHash(h, ds, self) ==
    LET m == DictHash(ds[self.metadata])
    IN  IF ~m.ok
        THEN m
        ELSE Ok(HashTuple(<<DataclassHash(h[self.source]),
                            DataclassHash(h[self.target]),
                            WordCode(self.relation_type), m.obj>>))

\* {rs[i], rs[j]}: each element is hashed as it is added
PatternRelationSet(h, ds, rs, i, j) ==
    LET hi == PatternRelationHash(h, ds, rs[i])
        hj == PatternRelationHash(h, ds, rs[j])
    IN  IF ~hi.ok THEN hi
        ELSE IF ~hj.ok THEN hj
        ELSE IF hi.obj = hj.obj
                /\ (i = j \/ PatternRelationEq(h, ds, rs[i], rs[j]))
             THEN Ok({i})
             ELSE Ok({i, j})

\* DataclassSetattr of a dataclass that is not frozen: the value is stored
DataclassSetattr_Unfrozen(self, name, value) ==
    [res |-> Ok(None), self |-> [self EXCEPT ![name] = value]]

\* self.name = value: the generated __setattr__ raises for an instance of
\* the class itself and for every field name; res is the outcome and self
\* the object after the call
DataclassSetattr(self, name, value) ==
    [res |-> Raise("FrozenInstanceError",
                   <<"cannot", "assign", "to", "field">>),
     self |-> self]

\* KeeperPatternValidateCall of a validate() that fills in a store key where
\* there is none, after reporting it
KeeperPatternValidateCall_Defaulting(self) ==
    [res |-> KeeperPatternValidate(self),
     self |-> IF self.store_keys = <<>>
              THEN [self EXCEPT !.store_keys = <<"default">>]
              ELSE self]

\* self.validate() on a KeeperPattern: res is the outcome and self the
\* object after the call (the method reads store_keys and assigns nothing)
KeeperPatternValidateCall(self) ==
    [res |-> KeeperPatternValidate(self), self |-> self]

\* self.validate() on a HandlerPattern: the body is pass
HandlerPatternValidateCall(self) ==
    [res |-> HandlerPatternValidate(self), self |-> self]

ValidateCall(self) ==
    IF self.cls = "KeeperPattern"
    THEN KeeperPatternValidateCall(self)
    ELSE HandlerPatternValidateCall(self)

\* the names of the fields of a dataclass instance
Fields(self) == DOMAIN self \ {"cls"}

----------------------------------------------------------------------------
(* SpecLife: a client that builds a few value objects and patterns, relates *)
(* the patterns, and then uses what it holds: it validates patterns, hashes *)
(* relations and puts them into sets, assigns to fields and changes the     *)
(* dicts it passed as metadata.                                             *)

LifeValueObjectCalls ==
    {Call("PatternLocation", <<StrArg(<<"a">>), 1, 1, 0, 0>>),
     Call("PatternLocation", <<StrArg(<<"a">>), 0, 1, 0, 0>>),
     Call("ConfidenceScore", <<ConfidenceScoreHigh>>),
     Call("ConfidenceScore", <<NaN>>),
     Call("QualifiedName", <<<<"a">>, <<"a">>>>),
     Call("QualifiedName", <<<<"a">>, <<>>>>)}

ValueObjectNew(c) ==
    CASE c.op = "PatternLocation" ->
            PatternLocationNew(c.args[1], c.args[2], c.args[3], c.args[4],
                               c.args[5])
      [] c.op = "ConfidenceScore" -> ConfidenceScoreNew(c.args[1])
      [] c.op = "QualifiedName" -> QualifiedNameNew(c.args[1], c.args[2])

SampleKeys == {"reason"}
SampleValues == {"x"}

InitLife ==
    /\ heap = <<>>
    /\ pend = NoCall
    /\ last = NoLast
    /\ rels = <<>>
    /\ dicts = <<>>
    /\ repo = NoRepo

LifeNewValueObject ==
    /\ Len(heap) < MaxObjs
    /\ \E c \in LifeValueObjectCalls :
          Returned(c.op, <<>>, 0, ValueObjectNew(c))
    /\ UNCHANGED <<pend, rels, dicts, repo>>

LifeNewHandlerPattern ==
    /\ Len(heap) < MaxObjs
    /\ Returned("HandlerPattern", <<>>, 0,
                HandlerPatternNew(UsualLocation, UsualConfidence,
                                  "message_handler", "cosmos_sdk",
                                  UsualName, "message", UsualName, <<>>))
    /\ UNCHANGED <<pend, rels, dicts, repo>>

\* PatternRelation(source=s, target=t, relation_type=DEPENDS_ON, metadata={})
\* the caller keeps the dict when the relation is built
LifeNewPatternRelation ==
    /\ Len(rels) < MaxRels
    /\ \E s \in 1..Len(heap) : \E t \in 1..Len(heap) :
       \E rt \in {"depends_on"} : \E d \in {<<>>} :
          LET m == Len(dicts) + 1
              r == PatternRelationNew(s, t, rt, m)
          IN  /\ heap[s].cls \in {"KeeperPattern", "HandlerPattern"}
              /\ heap[t].cls \in {"KeeperPattern", "HandlerPattern"}
              /\ dicts' = IF r.ok THEN Append(dicts, d) ELSE dicts
              /\ rels' = IF r.ok THEN Append(rels, r.obj) ELSE rels
              /\ last' = [op |-> "PatternRelation", args |-> <<s, t, rt, m>>,
                          of |-> 0, res |-> r,
                          id |-> IF r.ok THEN Len(rels) + 1 ELSE 0]
    /\ UNCHANGED <<heap, pend, repo>>

\* hash(r) for a held relation
HashRelation ==
    /\ \E i \in 1..Len(rels) :
          last' = [op |-> "hash", args |-> <<>>, of |-> i,
                   res |-> PatternRelationHash(heap, dicts, rels[i]),
                   id |-> 0]
    /\ UNCHANGED <<heap, pend, rels, dicts, repo>>

\* {r1, r2} for two held relations
RelationSet ==
    /\ \E i \in 1..Len(rels) : \E j \in 1..Len(rels) :
          last' = [op |-> "set", args |-> <<i, j>>, of |-> 0,
                   res |-> PatternRelationSet(heap, dicts, rels, i, j),
                   id |-> 0]
    /\ UNCHANGED <<heap, pend, rels, dicts, repo>>

\* p.validate() on a held pattern p
LifeValidate ==
    /\ \E i \in 1..Len(heap) :
          /\ heap[i].cls \in {"KeeperPattern", "HandlerPattern"}
          /\ LET r == ValidateCall(heap[i])
             IN  /\ heap' = [heap EXCEPT ![i] = r.self]
                 /\ last' = [op |-> "validate", args |-> <<>>, of |-> i,
                             res |-> r.res, id |-> 0]
    /\ UNCHANGED <<pend, rels, dicts, repo>>

\* values a client assigns to the field called name: of the field's type
SampleAssigned(name) ==
    CASE name \in {"line_start", "line_end", "column_start", "column_end"} ->
            {2}
      [] name = "file_path" -> {PathNew(<<"a", "a">>)}
      [] name = "value" -> {Zero}
      [] name \in {"package", "name"} -> {<<"a", "a">>}
      [] name = "location" -> {PatternLocationAtLine(StrArg(<<"a">>), 2).obj}
      [] name = "confidence" -> {ConfidenceScoreNew(Zero).obj}
      [] name = "pattern_type" -> {"validator"}
      [] name = "framework" -> {"polkadot"}
      [] name \in {"keeper_name", "handler_name", "message_type"} ->
            {QualifiedNameNew(<<"a">>, <<".">>).obj}
      [] name = "store_keys" -> {<<"supply">>}
      [] name \in {"dependencies", "keeper_dependencies"} -> {<<UsualName>>}
      [] name = "handler_type" -> {"query"}
      [] name = "relation_type" -> {"calls"}
      [] name \in {"source", "target", "metadata"} -> {1}

\* x.name = value for a held value object or pattern x
SetAttr ==
    /\ \E i \in 1..Len(heap) : \E name \in Fields(heap[i]) :
       \E value \in SampleAssigned(name) :
          LET r == DataclassSetattr(heap[i], name, value)
          IN  /\ heap' = [heap EXCEPT ![i] = r.self]
              /\ last' = [op |-> "setattr", args |-> <<"heap", name, value>>,
                          of |-> i, res |-> r.res, id |-> 0]
    /\ UNCHANGED <<pend, rels, dicts, repo>>

\* r.name = value for a held relation r
SetAttrRelation ==
    /\ \E i \in 1..Len(rels) : \E name \in Fields(rels[i]) :
       \E value \in SampleAssigned(name) :
          LET r == DataclassSetattr(rels[i], name, value)
          IN  /\ rels' = [rels EXCEPT ![i] = r.self]
              /\ last' = [op |-> "setattr", args |-> <<"rels", name, value>>,
                          of |-> i, res |-> r.res, id |-> 0]
    /\ UNCHANGED <<heap, pend, dicts, repo>>

\* d[k] = v on a held dict d: by the caller that passed d as metadata, or
\* as relation.metadata[k] = v by a holder of the relation (the same dict)
SetItem ==
    /\ \E i \in 1..Len(dicts) : \E k \in SampleKeys : \E v \in SampleValues :
          /\ dicts' = [dicts EXCEPT ![i] = DictSetItem(dicts[i], k, v)]
          /\ last' = [op |-> "setitem", args |-> <<k, v>>, of |-> i,
                      res |-> Ok(None), id |-> 0]
    /\ UNCHANGED <<heap, pend, rels, repo>>

NextLife ==
    \/ LifeNewValueObject
    \/ RelNewKeeperPattern
    \/ LifeNewHandlerPattern
    \/ LifeNewPatternRelation
    \/ LifeValidate
    \/ HashRelation
    \/ RelationSet
    \/ SetAttr
    \/ SetAttrRelation
    \/ SetItem

SpecLife == InitLife /\ [][NextLife]_vars

\* C11: hash(r) returns for every held PatternRelation r, and the set built
\* from two held relations with the same source, the same target, the same
\* relation_type and equal metadata is built and has one element.
C11_RelationHashable ==
    /\ last.op = "hash" => last.res.ok
    /\ last.op = "set" =>
          /\ last.res.ok
          /\ LET x == rels[last.args[1]]
                 y == rels[last.args[2]]
             IN  (/\ x.source = y.source
                  /\ x.target = y.target
                  /\ x.relation_type = y.relation_type
                  /\ DictEq(dicts[x.metadata], dicts[y.metadata]))
                 => Cardinality(last.res.obj) = 1

\* C12: an assignment to a field of a held PatternLocation, ConfidenceScore,
\* QualifiedName, KeeperPattern, HandlerPattern or PatternRelation fails, and
\* every field of every held object has after the attempt the value it had
\* before it.
C12_FieldsFrozen ==
    [][last'.op = "setattr" =>
          /\ ~last'.res.ok
          /\ heap' = heap
          /\ rels' = rels]_vars

\* an assignment to relation.metadata has failed
C12_Witness ==
    /\ last.op = "setattr"
    /\ last.args[1] = "rels"
    /\ last.args[2] = "metadata"
    /\ ~last.res.ok
    /\ {heap[i].cls : i \in 1..Len(heap)} = {"KeeperPattern", "HandlerPattern"}

\* what a reader of relation r observes: the objects its fields refer to
RelationObserved(h, ds, r) ==
    [source |-> h[r.source],
     target |-> h[r.target],
     relation_type |-> r.relation_type,
     metadata |-> ds[r.metadata]]

\* C13: no step changes the value observed for the source, the target, the
\* relation_type or the metadata of a held PatternRelation.
C13_RelationNeverMutated ==
    [][\A i \in 1..Len(rels) :
          RelationObserved(heap', dicts', rels'[i]) =
          RelationObserved(heap, dicts, rels[i])]_vars

\* C14: every held HandlerPattern has handler_type 'message' or 'query', and
\* validate() returns on no HandlerPattern with another handler_type.
C14_HandlerTypeClosed ==
    /\ \A i \in 1..Len(heap) :
          heap[i].cls = "HandlerPattern" =>
             heap[i].handler_type \in {"message", "query"}
    /\ (last.op = "validate" /\ heap[last.of].cls = "HandlerPattern"
        /\ last.res.ok) =>
          heap[last.of].handler_type \in {"message", "query"}

C16_ValidateNoSideEffects ==
    [][last'.op = "validate" =>
          /\ heap' = heap
          /\ rels' = rels
          /\ dicts' = dicts
          /\ ValidateCall(heap'[last'.of]).res = last'.res]_vars

\* validate() has failed on a keeper without store keys, which is still held
\* without store keys
C16_Witness ==
    /\ last.op = "validate"
    /\ ~last.res.ok
    /\ heap[last.of].cls = "KeeperPattern"
    /\ heap[last.of].store_keys = <<>>

\* the error class a failed construction of a value object raises
InvalidKindOf(op) ==
    CASE op = "PatternLocation" -> "InvalidLocationError"
      [] op = "ConfidenceScore" -> "InvalidConfidenceScoreError"
      [] op = "QualifiedName" -> "InvalidQualifiedNameError"

----------------------------------------------------------------------------
(* value_objects/location.py: __str__.  str(int) and str(Path) as the       *)
(* f-string applies them.                                                   *)

Digits == <<"0", "1", "2", "3", "4", "5", "6", "7", "8", "9">>

\* str(n) for an int n
RECURSIVE IntStr(_)
IntStr(n) ==
    IF n < 0 THEN <<"-">> \o IntStr(0 - n)
    ELSE IF n < 10 THEN <<Digits[n + 1]>>
    ELSE IntStr(n \div 10) \o <<Digits[(n % 10) + 1]>>

\* sep.join(parts)
RECURSIVE Join(_, _)
Join(sep, parts) ==
    IF parts = <<>> THEN <<>>
    ELSE IF Len(parts) = 1 THEN parts[1]
    ELSE parts[1] \o sep \o Join(sep, Tail(parts))

\* str(p) for a Path p: the root, then the other parts joined by '/'
PathStr(p) ==
    IF p.parts = <<>> THEN <<".">>
    ELSE IF p.parts[1] \in {<<"/">>, <<"/", "/">>}
    THEN p.parts[1] \o Join(<<"/">>, Tail(p.parts))
    ELSE Join(<<"/">>, p.parts)

\* PatternLocationStr that writes the range form for every location
PatternLocationStr_AlwaysRange(self) ==
    PathStr(self.file_path) \o <<":">> \o IntStr(self.line_start) \o <<":">>
    \o IntStr(self.column_start) \o <<"-">> \o IntStr(self.line_end)
    \o <<":">> \o IntStr(self.column_end)

PatternLocationStr(self) ==
    IF self.line_start = self.line_end
    THEN PathStr(self.file_path) \o <<":">> \o IntStr(self.line_start)
         \o <<":">> \o IntStr(self.column_start) \o <<"-">>
         \o IntStr(self.column_end)
    ELSE PathStr(self.file_path) \o <<":">> \o IntStr(self.line_start)
         \o <<":">> \o IntStr(self.column_start) \o <<"-">>
         \o IntStr(self.line_end) \o <<":">> \o IntStr(self.column_end)

----------------------------------------------------------------------------
(* SpecStr: one PatternLocation construction, then str() of the result *)

InitStr ==
    /\ InitCtor
    /\ pend.op = "PatternLocation"

\* str(x) for a held PatternLocation x
CallStr ==
    /\ pend = NoCall
    /\ \E i \in 1..Len(heap) :
          /\ heap[i].cls = "PatternLocation"
          /\ Called("str", <<>>, i, Ok(PatternLocationStr(heap[i])))
    /\ UNCHANGED <<pend, rels, dicts, repo>>

NextStr ==
    \/ CallPatternLocation
    \/ CallStr

SpecStr == InitStr /\ [][NextStr]_vars

\* C18: str(x) of a PatternLocation x is path:line_start:column_start-
\* column_end exactly when line_start = line_end, and path:line_start:
\* column_start-line_end:column_end exactly when line_end > line_start.
C18_LocationStr ==
    last.op = "str" =>
        LET x == heap[last.of]
            s == last.res.obj
            head == PathStr(x.file_path) \o <<":">> \o IntStr(x.line_start)
                    \o <<":">> \o IntStr(x.column_start) \o <<"-">>
            single == head \o IntStr(x.column_end)
            multi == head \o IntStr(x.line_end) \o <<":">>
                     \o IntStr(x.column_end)
        IN  /\ s = single <=> x.line_start = x.line_end
            /\ s = multi <=> x.line_end > x.line_start

\* str() of a location in a sub-directory that spans two lines
C18_Witness ==
    /\ last.op = "str"
    /\ heap[last.of].line_end > heap[last.of].line_start
    /\ Len(heap[last.of].file_path.parts) = 2
    /\ Contains(last.res.obj, "/")

\* C19: PatternLocation.at_line(f, n) has the outcome of
\* PatternLocation(f, n, n, 0, 0) and PatternLocation.single_point(f, l, c)
\* that of PatternLocation(f, l, l, c, c): an equal instance when the general
\* constructor returns, the same InvalidLocationError when it raises; they
\* raise exactly when n < 1, respectively l < 1 or c < 0, or the path is
\* empty.
C19_FactoryEquivalence ==
    /\ last.op = "at_line" =>
          LET f == last.args[1]
              n == last.args[2]
              g == PatternLocationNew(f, n, n, 0, 0)
          IN  /\ last.res.ok <=> g.ok
              /\ g.ok => DataclassEq(last.res.obj, g.obj)
              /\ ~g.ok => (last.res = g /\ g.err = "InvalidLocationError")
              /\ ~last.res.ok <=> (n < 1 \/ NumParts(f) = 0)
    /\ last.op = "single_point" =>
          LET f == last.args[1]
              l == last.args[2]
              c == last.args[3]
              g == PatternLocationNew(f, l, l, c, c)
          IN  /\ last.res.ok <=> g.ok
              /\ g.ok => DataclassEq(last.res.obj, g.obj)
              /\ ~g.ok => (last.res = g /\ g.err = "InvalidLocationError")
              /\ ~last.res.ok <=> (l < 1 \/ c < 0 \/ NumParts(f) = 0)

\* at_line has returned a location of line 2
C19_Witness ==
    /\ last.op = "at_line"
    /\ last.res.ok
    /\ last.args[2] = 2
    /\ heap[last.id].line_start = 2
    /\ heap[last.id].line_end = 2
    /\ heap[last.id].column_end = 0

----------------------------------------------------------------------------
(* tests/domain/interfaces/test_repository.py: InMemoryPatternRepository.   *)
(* _patterns holds references to the saved patterns, in the order saved.    *)

\* InMemorySavePatterns that replaces the stored list by the batch
InMemorySavePatterns_Replacing(self, patterns) ==
    [res |-> Ok(None),
     self |-> [self EXCEPT !._patterns = patterns]]

\* save_patterns(patterns): self._patterns.extend(patterns)
InMemorySavePatterns(self, patterns) ==
    [res |-> Ok(None),
     self |-> [self EXCEPT !._patterns = self._patterns \o patterns]]

\* InMemoryFindByType that returns each matching pattern once
InMemoryFindByType_Distinct(self, h, pattern_type) ==
    LET P == self._patterns
    IN  Ok(SelectSeq([i \in 1..Len(P) |->
                         IF \E j \in 1..(i - 1) : P[j] = P[i] THEN 0 ELSE P[i]],
                     LAMBDA x : x # 0 /\ h[x].pattern_type = pattern_type))

\* find_by_type(pattern_type):
\* [p for p in self._patterns if p.pattern_type == pattern_type]
InMemoryFindByType(self, h, pattern_type) ==
    Ok(SelectSeq(self._patterns, LAMBDA x : h[x].pattern_type = pattern_type))

\* sub in s, for strings
HasSubstr(s, sub) ==
    \E i \in 0..(Len(s) - Len(sub)) :
        \A k \in 1..Len(sub) : s[i + k] = sub[k]

\* execute_query(query): StorageError when "error" in query, else
\* list(self._patterns)
InMemoryExecuteQuery(self, query) ==
    IF HasSubstr(query, <<"e", "r", "r", "o", "r">>)
    THEN Raise("StorageError", <<"Query", "execution", "failed">>)
    ELSE Ok(self._patterns)

\* how many times x occurs in the list s
Count(s, x) == Cardinality({i \in 1..Len(s) : s[i] = x})

----------------------------------------------------------------------------
(* SpecRepo: a client that builds patterns, saves batches of them and looks *)
(* them up by type.                                                         *)

RepoPatternCalls ==
    {Call("KeeperPattern", <<"keeper">>),
     Call("HandlerPattern", <<"message_handler">>),
     Call("HandlerPattern", <<"query_handler">>)}

\* "MATCH (p) RETURN p" shortened to "p", "error" and "xerror"
SampleQueries ==
    {<<"p">>, <<"e", "r", "r", "o", "r">>, <<"x", "e", "r", "r", "o", "r">>}

\* the lists of at most MaxBatch held patterns
Batches(n) == UNION {[1..k -> 1..n] : k \in 0..MaxBatch}

InitRepo ==
    /\ heap = <<>>
    /\ pend = NoCall
    /\ last = NoLast
    /\ rels = <<>>
    /\ dicts = <<>>
    /\ repo = NoRepo

RepoNewPattern ==
    /\ Len(heap) < MaxObjs
    /\ \E c \in RepoPatternCalls :
          Returned(c.op, <<>>, 0,
                   IF c.op = "KeeperPattern"
                   THEN KeeperPatternNew(UsualLocation, UsualConfidence,
                                         c.args[1], "cosmos_sdk", UsualName,
                                         <<"bank">>, <<>>)
                   ELSE HandlerPatternNew(UsualLocation, UsualConfidence,
                                          c.args[1], "cosmos_sdk", UsualName,
                                          "message", UsualName, <<>>))
    /\ UNCHANGED <<pend, rels, dicts, repo>>

\* repo.save_patterns([...])
SavePatterns ==
    /\ \E b \in Batches(Len(heap)) :
          /\ Len(repo._patterns) + Len(b) <= MaxSaved
          /\ LET r == InMemorySavePatterns(repo, b)
             IN  /\ repo' = r.self
                 /\ last' = [op |-> "save_patterns", args |-> <<b>>, of |-> 0,
                             res |-> r.res, id |-> 0]
    /\ UNCHANGED <<heap, pend, rels, dicts>>

\* repo.find_by_type(t)
FindByType ==
    /\ \E t \in PatternType :
          last' = [op |-> "find_by_type", args |-> <<t>>, of |-> 0,
                   res |-> InMemoryFindByType(repo, heap, t), id |-> 0]
    /\ UNCHANGED <<heap, pend, rels, dicts, repo>>

\* repo.execute_query(q)
ExecuteQuery ==
    /\ \E q \in SampleQueries :
          last' = [op |-> "execute_query", args |-> <<q>>, of |-> 0,
                   res |-> InMemoryExecuteQuery(repo, q), id |-> 0]
    /\ UNCHANGED <<heap, pend, rels, dicts, repo>>

NextRepo ==
    \/ RepoNewPattern
    \/ SavePatterns
    \/ FindByType
    \/ ExecuteQuery

SpecRepo == InitRepo /\ [][NextRepo]_vars

\* C20: save_patterns adds the patterns of its batch to those saved, once
\* per occurrence, and nothing else; find_by_type(t) changes nothing and
\* returns a list in which every held pattern occurs as often as it was
\* saved when its pattern_type is t and not at all otherwise; what it
\* returns is always a list, the empty list when no saved pattern has type t.
C20_FindByType ==
    [][/\ last'.op = "save_patterns" =>
             \A x \in 1..Len(heap) :
                Count(repo'._patterns, x) =
                Count(repo._patterns, x) + Count(last'.args[1], x)
       /\ last'.op = "find_by_type" =>
             /\ repo' = repo
             /\ last'.res.ok
             /\ last'.res.obj \in Seq(1..Len(heap))
             /\ \A x \in 1..Len(heap) :
                   Count(last'.res.obj, x) =
                   IF heap[x].pattern_type = last'.args[1]
                   THEN Count(repo._patterns, x)
                   ELSE 0
             /\ (\A i \in 1..Len(repo._patterns) :
                    heap[repo._patterns[i]].pattern_type # last'.args[1])
                => last'.res.obj = <<>>]_vars

\* a keeper saved twice and a handler saved once: find_by_type(KEEPER) has
\* returned the keeper twice
C20_Witness ==
    /\ last.op = "find_by_type"
    /\ last.args[1] = "keeper"
    /\ Len(last.res.obj) = 2
    /\ last.res.obj[1] = last.res.obj[2]
    /\ \E i \in 1..Len(repo._patterns) :
          heap[repo._patterns[i]].pattern_type = "message_handler"

\* C21: save_patterns([]) does not fail and changes no answer of the
\* repository: for every pattern type find_by_type gives after the call what
\* it gave before it, and so does execute_query for every query, in every
\* state of the repository.
C21_SaveEmptyNoOp ==
    [][(last'.op = "save_patterns" /\ last'.args[1] = <<>>) =>
          /\ last'.res.ok
          /\ \A t \in PatternType :
                InMemoryFindByType(repo', heap', t)
                = InMemoryFindByType(repo, heap, t)
          /\ \A q \in SampleQueries :
                InMemoryExecuteQuery(repo', q) = InMemoryExecuteQuery(repo, q)
      ]_vars

\* the empty list has been saved into a repository that holds a keeper and
\* a handler
C21_Witness ==
    /\ last.op = "save_patterns"
    /\ last.args[1] = <<>>
    /\ \E i \in 1..Len(repo._patterns) :
          heap[repo._patterns[i]].pattern_type = "keeper"
    /\ \E i \in 1..Len(repo._patterns) :
          heap[repo._patterns[i]].pattern_type = "message_handler"

----------------------------------------------------------------------------
(* examples/domain_usage.py: InMemoryRepository, with its lists taken as    *)
(* objects.  A list is a heap object [cls |-> "list", items |-> ...] whose  *)
(* items are the identities of patterns; self._patterns, the argument of    *)
(* save_patterns and the results of find_by_type and execute_query are      *)
(* identities of lists.  An operation gives its result, the heap after it   *)
(* and the repository after it.                                             *)

ListNew(items) == [cls |-> "list", items |-> items]

\* __init__: self._patterns = []
InMemoryRepositoryInit(h) ==
    [res |-> Ok(None), heap |-> Append(h, ListNew(<<>>)),
     self |-> [_patterns |-> Len(h) + 1]]

\* save_patterns(patterns): self._patterns.extend(patterns)
InMemoryRepositorySavePatterns(h, self, patterns) ==
    [res |-> Ok(None),
     heap |-> [h EXCEPT ![self._patterns].items = @ \o h[patterns].items],
     self |-> self]

\* find_by_type(pattern_type):
\* [p for p in self._patterns if p.pattern_type == pattern_type]
InMemoryRepositoryFindByType(h, self, pattern_type) ==
    [res |-> Ok(Len(h) + 1),
     heap |-> Append(h, ListNew(SelectSeq(h[self._patterns].items,
                           LAMBDA x : h[x].pattern_type = pattern_type))),
     self |-> self]

\* InMemoryRepositoryExecuteQuery that returns self._patterns itself
InMemoryRepositoryExecuteQuery_NoCopy(h, self, query) ==
    [res |-> Ok(self._patterns), heap |-> h, self |-> self]

\* execute_query(query): list(self._patterns)
InMemoryRepositoryExecuteQuery(h, self, query) ==
    [res |-> Ok(Len(h) + 1),
     heap |-> Append(h, ListNew(h[self._patterns].items)),
     self |-> self]

\* lst.append(x) and lst.clear() on a list object
ListAppend(h, lst, x) == [h EXCEPT ![lst].items = Append(@, x)]
ListClear(h, lst) == [h EXCEPT ![lst].items = <<>>]

----------------------------------------------------------------------------
(* SpecAlias: a client that builds patterns, then keeps one variable lst    *)
(* bound to a list: one it made, or one the repository returned.  It saves  *)
(* lst, looks patterns up, and mutates lst.  Rebinding lst drops the last   *)
(* reference to the list it was bound to, unless the repository has it.     *)

MaxLists == 2       \* most lists the client makes or is given, in all

Freed == [cls |-> "freed"]

IsList(h, i) == h[i].cls = "list"
PatternsOf(h) == {i \in 1..Len(h) : h[i].cls \notin {"list", "freed"}}
ListsOf(h) == {i \in 1..Len(h) : h[i].cls \in {"list", "freed"}}

\* the heap once the client no longer refers to the list old
Unbind(h, self, old) ==
    IF old = 0 \/ old = self._patterns THEN h ELSE [h EXCEPT ![old] = Freed]

InitAlias ==
    /\ heap = InMemoryRepositoryInit(<<>>).heap
    /\ repo = InMemoryRepositoryInit(<<>>).self
    /\ pend = NoCall
    /\ last = NoLast
    /\ rels = <<>>
    /\ dicts = <<>>

AliasNewPattern ==
    /\ Cardinality(PatternsOf(heap)) < MaxObjs
    /\ Cardinality(ListsOf(heap)) = 1
    /\ \E t \in {"keeper", "message_handler"} :
          Returned("KeeperPattern", <<>>, 0,
                   KeeperPatternNew(UsualLocation, UsualConfidence, t,
                                    "cosmos_sdk", UsualName, <<"bank">>, <<>>))
    /\ UNCHANGED <<pend, rels, dicts, repo>>

\* the list lst is bound to: the one the latest call made, returned, was
\* passed or acted on; 0 when lst is unbound
ClientList ==
    IF last.op \in {"list", "find_by_type", "execute_query"} /\ last.res.ok
    THEN last.res.obj
    ELSE IF last.op = "save_patterns" THEN last.args[1]
    ELSE IF last.op \in {"append", "clear"} THEN last.of
    ELSE 0

\* lst = []
AliasNewList ==
    /\ Cardinality(ListsOf(heap)) <= MaxLists
    /\ heap' = Append(Unbind(heap, repo, ClientList), ListNew(<<>>))
    /\ last' = [op |-> "list", args |-> <<>>, of |-> 0,
                res |-> Ok(Len(heap) + 1), id |-> Len(heap) + 1]
    /\ UNCHANGED <<pend, rels, dicts, repo>>

\* lst.append(p) on a list the client has
AliasAppend ==
    /\ ClientList # 0
    /\ Len(heap[ClientList].items) < MaxBatch
    /\ \E p \in PatternsOf(heap) :
          /\ heap' = ListAppend(heap, ClientList, p)
          /\ last' = [op |-> "append", args |-> <<p>>, of |-> ClientList,
                      res |-> Ok(None), id |-> 0]
    /\ UNCHANGED <<pend, rels, dicts, repo>>

\* lst.clear() on a list the client has
AliasClear ==
    /\ ClientList # 0
    /\ heap' = ListClear(heap, ClientList)
    /\ last' = [op |-> "clear", args |-> <<>>, of |-> ClientList,
                res |-> Ok(None), id |-> 0]
    /\ UNCHANGED <<pend, rels, dicts, repo>>

\* repo.save_patterns(lst) with a list the client has
AliasSavePatterns ==
    /\ ClientList # 0
    /\ Len(heap[repo._patterns].items) + Len(heap[ClientList].items)
       <= MaxSaved
    /\ LET r == InMemoryRepositorySavePatterns(heap, repo, ClientList)
       IN  /\ heap' = r.heap
           /\ repo' = r.self
           /\ last' = [op |-> "save_patterns", args |-> <<ClientList>>,
                       of |-> 0, res |-> r.res, id |-> 0]
    /\ UNCHANGED <<pend, rels, dicts>>

\* lst = repo.find_by_type(t)
AliasFindByType ==
    /\ Cardinality(ListsOf(heap)) <= MaxLists
    /\ \E t \in {"keeper", "message_handler"} :
          LET r == InMemoryRepositoryFindByType(heap, repo, t)
          IN  /\ heap' = Unbind(r.heap, r.self, ClientList)
              /\ repo' = r.self
              /\ last' = [op |-> "find_by_type", args |-> <<t>>, of |-> 0,
                          res |-> r.res, id |-> 0]
    /\ UNCHANGED <<pend, rels, dicts>>

\* lst = repo.execute_query("all"); a result that is no new object takes no
\* room
AliasExecuteQuery ==
    LET r == InMemoryRepositoryExecuteQuery(heap, repo, <<"a", "l", "l">>)
    IN  /\ Cardinality(ListsOf(r.heap)) <= MaxLists + 1
        /\ heap' = IF r.res.obj = ClientList THEN r.heap
                   ELSE Unbind(r.heap, r.self, ClientList)
        /\ repo' = r.self
        /\ last' = [op |-> "execute_query", args |-> <<"all">>, of |-> 0,
                    res |-> r.res, id |-> 0]
        /\ UNCHANGED <<pend, rels, dicts>>

NextAlias ==
    \/ AliasNewPattern
    \/ AliasNewList
    \/ AliasAppend
    \/ AliasClear
    \/ AliasSavePatterns
    \/ AliasFindByType
    \/ AliasExecuteQuery

SpecAlias == InitAlias /\ [][NextAlias]_vars

\* what find_by_type(t) and execute_query would give in a state, as values
FoundItems(h, self, t) ==
    LET r == InMemoryRepositoryFindByType(h, self, t)
    IN  r.heap[r.res.obj].items

QueriedItems(h, self) ==
    LET r == InMemoryRepositoryExecuteQuery(h, self, <<"a", "l", "l">>)
    IN  r.heap[r.res.obj].items

\* C22: find_by_type and execute_query give a list object that did not exist
\* before the call and leave the repository's own list as it was;
\* save_patterns leaves the repository with the list it had, which is not
\* the caller's, and leaves the caller's list as it was; and when the client
\* appends to or clears a list it passed or was given, find_by_type for
\* every type and execute_query give afterwards what they gave before.
C22_FreshLists ==
    [][/\ last'.op \in {"find_by_type", "execute_query"} =>
             /\ last'.res.ok
             /\ last'.res.obj = Len(heap) + 1
             /\ Len(heap') = Len(heap) + 1
             /\ IsList(heap', last'.res.obj)
             /\ repo' = repo
             /\ heap'[repo._patterns] = heap[repo._patterns]
       /\ last'.op = "save_patterns" =>
             /\ repo'._patterns = repo._patterns
             /\ repo'._patterns # last'.args[1]
             /\ heap'[last'.args[1]] = heap[last'.args[1]]
       /\ last'.op \in {"append", "clear"} =>
             /\ \A t \in PatternType :
                   FoundItems(heap', repo', t) = FoundItems(heap, repo, t)
             /\ QueriedItems(heap', repo') = QueriedItems(heap, repo)
      ]_vars

\* the client has saved a list of two patterns, kept the list a later call
\* returned and cleared it, and the repository still holds the two patterns
C22_Witness ==
    /\ last.op = "clear"
    /\ last.of # repo._patterns
    /\ \E i \in 1..(last.of - 1) : heap[i] = Freed
    /\ Len(heap[repo._patterns].items) = 2

----------------------------------------------------------------------------
(* tests/domain/interfaces/test_extractor.py: MockDetector and             *)
(* MockCosmosExtractor                                                      *)

\* MockDetector(patterns_to_return)
MockDetectorNew(patterns_to_return) ==
    Ok([cls |-> "MockDetector", _patterns |-> patterns_to_return])

\* detect(source_code, file_path): return self._patterns
MockDetectorDetect(self, source_code, file_path) == Ok(self._patterns)

\* MockCosmosExtractor(detectors): self._detectors = detectors or []
MockCosmosExtractorNew(detectors) ==
    Ok([cls |-> "MockCosmosExtractor", _detectors |-> detectors])

\* the loop of extract: for detector in detectors: all_patterns.extend(...)
RECURSIVE ExtractLoop(_, _, _)
ExtractLoop(detectors, codebase_path, all_patterns) ==
    IF detectors = <<>> THEN all_patterns
    ELSE LET patterns == MockDetectorDetect(Head(detectors), <<"mock code">>,
                                            codebase_path \o <<"/file.go">>)
         IN  ExtractLoop(Tail(detectors), codebase_path,
                         all_patterns \o patterns.obj)

\* extract(codebase_path): all_patterns = []; the loop; return all_patterns
MockCosmosExtractorExtract(self, codebase_path) ==
    Ok(ExtractLoop(self._detectors, codebase_path, <<>>))

----------------------------------------------------------------------------
(* SpecExtract: one extractor built from detectors that report given lists  *)
(* of patterns, and one extract call on it.                                 *)

MaxDetectors == 2   \* most detectors given to an extractor

\* keepers found at a:1, a:2 and /a:1
ExtractPatterns ==
    {KeeperPatternNew(
         PatternLocationAtLine(StrArg(c[1]), c[2]).obj, UsualConfidence,
         "keeper", "cosmos_sdk", UsualName, <<"bank">>, <<>>).obj :
        c \in {<< <<"a">>, 1>>, << <<"a">>, 2>>, << <<"/", "a">>, 1>>}}

\* what one detector reports: a list of at most MaxBatch patterns
Reports == UNION {[1..k -> ExtractPatterns] : k \in 0..MaxBatch}

ExtractCalls ==
    {Call("extract", <<ds>>) :
        ds \in UNION {[1..n -> Reports] : n \in 0..MaxDetectors}}

InitExtract ==
    /\ heap = <<>>
    /\ pend \in ExtractCalls
    /\ last = NoLast
    /\ rels = <<>>
    /\ dicts = <<>>
    /\ repo = NoRepo

\* MockCosmosExtractor([MockDetector(r) for r in reports]).extract("/codebase")
CallExtract ==
    /\ pend.op = "extract"
    /\ LET reports == pend.args[1]
           detectors == [i \in 1..Len(reports) |->
                            MockDetectorNew(reports[i]).obj]
           extractor == MockCosmosExtractorNew(detectors).obj
       IN  last' = [op |-> "extract", args |-> pend.args, of |-> 0,
                    res |-> MockCosmosExtractorExtract(
                                extractor, <<"/codebase">>),
                    id |-> 0]
    /\ pend' = NoCall
    /\ UNCHANGED <<heap, rels, dicts, repo>>

NextExtract == CallExtract

SpecExtract == InitExtract /\ [][NextExtract]_vars

\* s < t for strings, character by character
StrLt(s, t) ==
    \E i \in 1..(Len(t)) :
        /\ \A k \in 1..(i - 1) : k <= Len(s) /\ s[k] = t[k]
        /\ i > Len(s) \/ (i - 1 < Len(s) /\ ChCode(s[i]) < ChCode(t[i]))

\* location a comes no later than location b by (file path, line number)
LocationLe(a, b) ==
    \/ StrLt(PathStr(a.file_path), PathStr(b.file_path))
    \/ /\ PathStr(a.file_path) = PathStr(b.file_path)
       /\ a.line_start <= b.line_start

\* the sum of the occurrences of x in the lists of ls
RECURSIVE CountAll(_, _)
CountAll(ls, x) ==
    IF ls = <<>> THEN 0 ELSE Count(Head(ls), x) + CountAll(Tail(ls), x)

\* C23: extract returns a list that holds every pattern as often as the
\* detectors reported it and nothing else, and that is sorted by (file
\* path, line number), whatever the detectors and the order of their
\* reports; it is the empty list when there is no detector or no report.
C23_ExtractSorted ==
    last.op = "extract" =>
        /\ last.res.ok
        /\ \A p \in ExtractPatterns :
              Count(last.res.obj, p) = CountAll(last.args[1], p)
        /\ \A i, j \in 1..Len(last.res.obj) :
              i < j => LocationLe(last.res.obj[i].location,
                                  last.res.obj[j].location)
        /\ (\A k \in 1..Len(last.args[1]) : last.args[1][k] = <<>>)
           => last.res.obj = <<>>

----------------------------------------------------------------------------
(* tests/domain/interfaces/test_detector.py: MockKeeperDetector.  A call of *)
(* detect is a frame: its arguments, its position and its result so far.    *)
(* A step of a call reads and writes the frame and the detector object.     *)

\* str.lower() on the characters used
Lower(s) == [i \in 1..Len(s) |-> IF s[i] = "K" THEN "k" ELSE s[i]]

\* MockKeeperDetector(): an object without attributes; __dict__ is the
\* sequence of the values of its attributes
MockKeeperDetectorNew == Ok([cls |-> "MockKeeperDetector", __dict__ |-> <<>>])

\* QualifiedName(package="test.keeper", name="Keeper")
TestKeeperName ==
    QualifiedNameNew(<<"t", "e", "s", "t", ".", "k", "e", "e", "p", "e", "r">>,
                     <<"K", "e", "e", "p", "e", "r">>).obj

Frame(source_code, file_path) ==
    [pc |-> "test", source_code |-> source_code, file_path |-> file_path,
     res |-> Ok(<<>>)]

IdleFrame ==
    [pc |-> "idle", source_code |-> <<>>, file_path |-> <<>>,
     res |-> Ok(<<>>)]

\* MockKeeperDetectorDetectStep that keeps file_path in the detector between
\* the test and the construction of the pattern
MockKeeperDetectorDetectStep_Stashing(self, f) ==
    IF f.pc = "test"
    THEN [self |-> [self EXCEPT !.__dict__ = <<f.file_path>>],
          frame |-> [f EXCEPT !.pc =
                        IF HasSubstr(Lower(f.source_code),
                                     <<"k", "e", "e", "p", "e", "r">>)
                        THEN "build" ELSE "done"]]
    ELSE LET loc == PatternLocationAtLine(StrArg(self.__dict__[1]), 10)
         IN  [self |-> self,
              frame |-> [f EXCEPT
                 !.pc = "done",
                 !.res = IF ~loc.ok THEN loc
                         ELSE Ok(<<KeeperPatternNew(
                                 loc.obj, ConfidenceScoreNew(Fl(900000)).obj,
                                 "keeper", "cosmos_sdk", TestKeeperName,
                                 <<"test">>, <<>>).obj>>)]]

\* one step of detect(source_code, file_path):
\*   test:  if "keeper" in source_code.lower(), else return []
\*   build: return [KeeperPattern(location=PatternLocation.at_line(
\*              file_path, 10), ...)], or the error of a constructor
MockKeeperDetectorDetectStep(self, f) ==
    IF f.pc = "test"
    THEN [self |-> self,
          frame |-> [f EXCEPT !.pc =
                        IF HasSubstr(Lower(f.source_code),
                                     <<"k", "e", "e", "p", "e", "r">>)
                        THEN "build" ELSE "done"]]
    ELSE LET loc == PatternLocationAtLine(StrArg(f.file_path), 10)
         IN  [self |-> self,
              frame |-> [f EXCEPT
                 !.pc = "done",
                 !.res = IF ~loc.ok THEN loc
                         ELSE Ok(<<KeeperPatternNew(
                                 loc.obj, ConfidenceScoreNew(Fl(900000)).obj,
                                 "keeper", "cosmos_sdk", TestKeeperName,
                                 <<"test">>, <<>>).obj>>)]]

\* detect(source_code, file_path) run alone from call to return
RECURSIVE DetectRun(_, _)
DetectRun(self, f) ==
    IF f.pc = "done" THEN f.res
    ELSE LET r == MockKeeperDetectorDetectStep(self, f)
         IN  DetectRun(r.self, r.frame)

MockKeeperDetectorDetect(self, source_code, file_path) ==
    DetectRun(self, Frame(source_code, file_path))

\* supported_pattern_type(): return PatternType.KEEPER
MockKeeperDetectorSupportedPatternType(self) == Ok("keeper")

----------------------------------------------------------------------------
(* SpecDetect: threads that call detect and supported_pattern_type on one   *)
(* MockKeeperDetector, their steps interleaved in every order.  pend holds  *)
(* the frame of each thread.                                                *)

MaxThreads == 2     \* threads that share the detector

Threads == 1..MaxThreads

SampleSources == {<<"K", "e", "e", "p", "e", "r">>, <<"x">>}

SampleFilePaths == {<<"a">>, <<"/", "a">>, <<>>}

InitDetect ==
    /\ heap = <<MockKeeperDetectorNew.obj>>
    /\ pend = [t \in Threads |-> IdleFrame]
    /\ last = NoLast
    /\ rels = <<>>
    /\ dicts = <<>>
    /\ repo = NoRepo

\* thread t calls detector.detect(s, p)
CallDetect(t) ==
    /\ pend[t].pc = "idle"
    /\ \E s \in SampleSources, p \in SampleFilePaths :
          pend' = [pend EXCEPT ![t] = Frame(s, p)]
    /\ UNCHANGED <<heap, last, rels, dicts, repo>>

\* thread t runs the next step of its call
StepDetect(t) ==
    /\ pend[t].pc \in {"test", "build"}
    /\ LET r == MockKeeperDetectorDetectStep(heap[1], pend[t])
       IN  /\ heap' = [heap EXCEPT ![1] = r.self]
           /\ pend' = [pend EXCEPT ![t] = r.frame]
    /\ UNCHANGED <<last, rels, dicts, repo>>

\* the call of thread t returns or raises
ReturnDetect(t) ==
    /\ pend[t].pc = "done"
    /\ last' = [op |-> "detect",
                args |-> <<pend[t].source_code, pend[t].file_path>>,
                of |-> 1, res |-> pend[t].res, id |-> t]
    /\ pend' = [pend EXCEPT ![t] = IdleFrame]
    /\ UNCHANGED <<heap, rels, dicts, repo>>

\* a thread that is not inside detect calls supported_pattern_type()
CallSupportedPatternType(t) ==
    /\ pend[t].pc = "idle"
    /\ last' = [op |-> "supported_pattern_type", args |-> <<>>, of |-> 1,
                res |-> MockKeeperDetectorSupportedPatternType(heap[1]),
                id |-> t]
    /\ UNCHANGED <<heap, pend, rels, dicts, repo>>

NextDetect ==
    \E t \in Threads :
        \/ CallDetect(t)
        \/ StepDetect(t)
        \/ ReturnDetect(t)
        \/ CallSupportedPatternType(t)

SpecDetect == InitDetect /\ [][NextDetect]_vars

\* C24: with the calls of several threads interleaved on one detector, a
\* detect call that returns gives what the same call gives when run alone,
\* no step of any call changes the detector object, and every
\* supported_pattern_type() call gives the same value, whatever the other
\* threads are doing.
C24_DetectReentrant ==
    [][/\ heap' = heap
       /\ last'.op = "detect" =>
             last'.res = MockKeeperDetectorDetect(
                             MockKeeperDetectorNew.obj,
                             last'.args[1], last'.args[2])
       /\ last'.op = "supported_pattern_type" =>
             last'.res = MockKeeperDetectorSupportedPatternType(
                             MockKeeperDetectorNew.obj)
      ]_vars

\* a detect call has returned a keeper while another thread, called with
\* another file path, was between its test and its construction
C24_Witness ==
    /\ last.op = "detect"
    /\ last.res.ok
    /\ last.res.obj # <<>>
    /\ \E t \in Threads :
          /\ t # last.id
          /\ pend[t].pc = "build"
          /\ pend[t].file_path # last.args[2]

\* the checks of a PatternLocation in the order of the claim, each with
\* whether the arguments a fail it and the message of its error
LocationChecks(a) ==
    << [fails |-> a[2] < 1,
        msg |-> <<"Line", "start", "must", "be", "positive">>],
       [fails |-> a[3] < 1,
        msg |-> <<"Line", "end", "must", "be", "positive">>],
       [fails |-> a[3] < a[2],
        msg |-> <<"Line", "end", "must", "be", ">=", "line", "start">>],
       [fails |-> a[4] < 0,
        msg |-> <<"Column", "start", "must", "be", "non-negative">>],
       [fails |-> a[5] < 0,
        msg |-> <<"Column", "end", "must", "be", "non-negative">>],
       [fails |-> a[2] = a[3] /\ a[5] < a[4],
        msg |-> <<"Column", "end", "must", "be", ">=", "column", "start",
                  "on", "single", "line">>],
       [fails |-> NumParts(a[1]) = 0,
        msg |-> <<"File", "path", "cannot", "be", "empty">>] >>

\* C25: a PatternLocation call that fails raises one InvalidLocationError,
\* that of the first check its arguments fail in the order line_start >= 1,
\* line_end >= 1, line_end >= line_start, column_start >= 0, column_end >=
\* 0, same-line column_end >= column_start, non-empty path, however many
\* later checks the arguments fail as well.
C25_FirstErrorOnly ==
    (last.op = "PatternLocation" /\ ~last.res.ok) =>
        LET cs == LocationChecks(last.args)
            failing == {i \in 1..Len(cs) : cs[i].fails}
        IN  /\ failing # {}
            /\ \E i \in failing :
                  /\ \A j \in failing : i <= j
                  /\ last.res = Raise("InvalidLocationError", cs[i].msg)

\* a call with line_start < 1, a negative column_start and an empty path
\* has raised the error about line_start
C25_Witness ==
    /\ last.op = "PatternLocation"
    /\ last.args[2] < 1
    /\ last.args[4] < 0
    /\ NumParts(last.args[1]) = 0
    /\ ~last.res.ok
    /\ Mentions(last.res.msg, <<"Line", "start">>)

\* C26: for a QualifiedName q whose name contains a '.', parse(str(q))
\* either raises InvalidQualifiedNameError or returns a QualifiedName that
\* is not equal to q, with a longer package and a shorter name than q's.
C26_DottedNameNoRoundTrip ==
    (last.op = "parse_str" /\ Contains(heap[last.of].name, ".")) =>
        IF last.res.ok
        THEN /\ ~PyEq(heap, last.id, last.of)
             /\ Len(heap[last.id].package) > Len(heap[last.of].package)
             /\ Len(heap[last.id].name) < Len(heap[last.of].name)
        ELSE last.res.err = "InvalidQualifiedNameError"

\* the round trip of a name with a dot inside it has moved the part before
\* the dot into the package
C26_Witness ==
    /\ last.op = "parse_str"
    /\ heap[last.of].name = <<"a", ".", "a">>
    /\ last.res.ok
    /\ heap[last.id].name = <<"a">>
    /\ Len(heap[last.id].package) = Len(heap[last.of].package) + 2

----------------------------------------------------------------------------
(* SpecCanon: QualifiedName.parse(s) on a string, then parse again on the   *)
(* string form of the result.                                               *)

InitCanon == InitCtor /\ pend.op = "parse"

\* QualifiedName.parse(str(q)) on the q that parse(s) returned; the call
\* keeps s as its first argument
CallReparse ==
    /\ last.op = "parse"
    /\ last.res.ok
    /\ LET s == QualifiedNameStr(heap[last.id])
       IN  Returned("reparse", <<last.args[1], s>>, last.id,
                    QualifiedNameParse(s))
    /\ UNCHANGED <<pend, rels, dicts, repo>>

NextCanon == CallParse \/ CallReparse

SpecCanon == InitCanon /\ [][NextCanon]_vars

\* C27: whenever parse(s) succeeds, parse(str(parse(s))) succeeds too and
\* returns a QualifiedName equal to parse(s) with the same package and name,
\* whatever whitespace s has at its ends or around its last '.'.
C27_ParseCanonical ==
    last.op = "reparse" =>
        /\ last.res.ok
        /\ last.id # last.of
        /\ PyEq(heap, last.id, last.of)
        /\ heap[last.id].package = heap[last.of].package
        /\ heap[last.id].name = heap[last.of].name
        /\ QualifiedNameParse(last.args[1]) = Ok(heap[last.of])

\* s has blanks on both sides of its last '.', and the second parse has
\* returned the name without them
C27_Witness ==
    /\ last.op = "reparse"
    /\ last.res.ok
    /\ last.args[1] = <<"a", " ", ".", " ", "a">>
    /\ heap[last.id].package = <<"a">>
    /\ heap[last.id].name = <<"a">>

----------------------------------------------------------------------------
(* SpecNorm: two value objects of one class built from two lists of         *)
(* arguments, then a == b and the two hashes.                               *)

NormCalls ==
    {Call("PatternLocation", a) : a \in HeapLocArgs}
    \cup {Call("ConfidenceScore", <<v>>) : v \in HeapConfArgs}
    \cup {Call("QualifiedName", a) : a \in HeapNames \X HeapNames}

NormPairs ==
    {Call("pair", <<c1, c2>>) : c1, c2 \in NormCalls}

InitNorm ==
    /\ heap = <<>>
    /\ pend \in {c \in NormPairs : c.args[1].op = c.args[2].op}
    /\ last = NoLast
    /\ rels = <<>>
    /\ dicts = <<>>
    /\ repo = NoRepo

\* a = C(first arguments)
NormNewFirst ==
    /\ last.op = "none"
    /\ LET c == pend.args[1]
       IN  Returned(c.op, c.args, 0, ValueObjectNew(c))
    /\ UNCHANGED <<pend, rels, dicts, repo>>

\* b = C(second arguments)
NormNewSecond ==
    /\ Len(heap) = 1
    /\ last.id = 1
    /\ LET c == pend.args[2]
       IN  Returned(c.op, c.args, 0, ValueObjectNew(c))
    /\ UNCHANGED <<pend, rels, dicts, repo>>

\* (a == b, hash(a), hash(b))
NormCompare ==
    /\ Len(heap) = 2
    /\ last.id = 2
    /\ Called("eq_hash", <<1, 2>>, 0,
              Ok(<<PyEq(heap, 1, 2), DataclassHash(heap[1]),
                   DataclassHash(heap[2])>>))
    /\ UNCHANGED <<pend, rels, dicts, repo>>

NextNorm ==
    \/ NormNewFirst
    \/ NormNewSecond
    \/ NormCompare

SpecNorm == InitNorm /\ [][NextNorm]_vars

\* the fields a constructor call's arguments are normalized to: the parts of
\* the path and the four numbers, the score moved to the bound it is within
\* tolerance of, the two trimmed components
NormalizedArgs(c) ==
    CASE c.op = "PatternLocation" ->
            <<IF c.args[1].type = "str" THEN PathOf(c.args[1].s)
              ELSE c.args[1].parts,
              c.args[2], c.args[3], c.args[4], c.args[5]>>
      [] c.op = "ConfidenceScore" ->
            LET v == c.args[1]
            IN  <<IF 0 - EPSILON.u <= v.u /\ v.u < 0 THEN 0
                  ELSE IF One.u < v.u /\ v.u <= One.u + EPSILON.u THEN One.u
                  ELSE v.u>>
      [] c.op = "QualifiedName" -> <<Strip(c.args[1]), Strip(c.args[2])>>

\* C28: two value objects of one class are equal exactly when the arguments
\* they were built from have the same normalized fields, and then they have
\* the same hash: a score within tolerance of a bound equals the score built
\* from the bound, a name built with surrounding whitespace equals the one
\* built from the trimmed components, and a location built from a string
\* path equals the one built from the path object.
C28_EqualityOnNormalized ==
    last.op = "eq_hash" =>
        LET same == NormalizedArgs(pend.args[1]) = NormalizedArgs(pend.args[2])
        IN  /\ last.res.obj[1] = same
            /\ same => last.res.obj[2] = last.res.obj[3]

\* ConfidenceScore(-0.00001) has compared equal to ConfidenceScore(0.0)
C28_Witness ==
    /\ last.op = "eq_hash"
    /\ pend.args[1] = Call("ConfidenceScore", <<FNeg(EPSILON)>>)
    /\ pend.args[2] = Call("ConfidenceScore", <<Zero>>)
    /\ last.res.obj[1]
    /\ last.res.obj[2] = last.res.obj[3]

----------------------------------------------------------------------------
(* SpecRelEq: a client that builds keepers, then relations between them,    *)
(* each with a dict of its own, and compares a held relation with the one   *)
(* built last.  It holds one relation more than the client of SpecRel.      *)

\* PatternRelation(source=s, target=t, relation_type=rt, metadata={...})
EqNewPatternRelation ==
    /\ Len(rels) <= MaxRels
    /\ \E s \in 1..Len(heap) : \E t \in 1..Len(heap) :
       \E rt \in {"calls", "depends_on"} : \E d \in SampleDicts :
          LET m == Len(dicts) + 1
              r == PatternRelationNew(s, t, rt, m)
          IN  /\ rels' = IF r.ok THEN Append(rels, r.obj) ELSE rels
              /\ dicts' = IF r.ok THEN Append(dicts, d) ELSE dicts
              /\ last' = [op |-> "PatternRelation", args |-> <<s, t, rt, m>>,
                          of |-> 0, res |-> r,
                          id |-> IF r.ok THEN Len(rels) + 1 ELSE 0]
    /\ UNCHANGED <<heap, pend, repo>>

\* r1 == r2 on a held relation and the relation built last
RelationEq ==
    /\ \E i \in 1..Len(rels) : \E j \in {Len(rels)} :
          last' = [op |-> "eq", args |-> <<i, j>>, of |-> 0,
                   res |-> Ok(PatternRelationEq(heap, dicts, rels[i],
                                                rels[j])),
                   id |-> 0]
    /\ UNCHANGED <<heap, pend, rels, dicts, repo>>

NextRelEq ==
    \/ RelNewKeeperPattern
    \/ EqNewPatternRelation
    \/ RelationEq

SpecRelEq == InitRel /\ [][NextRelEq]_vars

\* C29: r1 == r2 is true exactly when the sources are equal by value, the
\* targets are equal by value, the relation types are the same and the
\* metadata are equal, whether or not the endpoints are the same objects;
\* and a relation is accepted whenever its source and target are different
\* objects, also when they are equal by value.
C29_RelationEqByValue ==
    /\ last.op = "eq" =>
          LET x == rels[last.args[1]]
              y == rels[last.args[2]]
          IN  last.res.obj =
                 (/\ DataclassEq(heap[x.source], heap[y.source])
                  /\ DataclassEq(heap[x.target], heap[y.target])
                  /\ x.relation_type = y.relation_type
                  /\ DictEq(dicts[x.metadata], dicts[y.metadata]))
    /\ (last.op = "PatternRelation" /\ last.args[1] # last.args[2]) =>
          last.res.ok

\* two relations with their endpoints swapped between two different keepers
\* that are equal by value have compared equal
C29_Witness ==
    /\ last.op = "eq"
    /\ last.res.obj
    /\ last.args[1] # last.args[2]
    /\ rels[last.args[1]].source # rels[last.args[2]].source
    /\ rels[last.args[1]].target # rels[last.args[2]].target
    /\ DataclassEq(heap[rels[last.args[1]].source],
                   heap[rels[last.args[1]].target])

----------------------------------------------------------------------------
(* SpecKeeper: two KeeperPattern objects built from two lists of arguments, *)
(* then validate() on the first and on the second.                          *)

KeeperCalls ==
    {Call("KeeperPattern", a) :
        a \in SampleLocations \X SampleConfidences \X SamplePatternTypes
              \X SampleFrameworks \X SampleNames \X SampleStoreKeys
              \X SampleDeps}

InitKeeper ==
    /\ heap = <<>>
    /\ pend \in {Call("pair", <<c1, c2>>) : c1, c2 \in KeeperCalls}
    /\ last = NoLast
    /\ rels = <<>>
    /\ dicts = <<>>
    /\ repo = NoRepo

\* k1 = KeeperPattern(...), then k2 = KeeperPattern(...)
KeeperNew ==
    /\ Len(heap) < 2
    /\ LET a == pend.args[Len(heap) + 1].args
       IN  Returned("KeeperPattern", a, 0,
                    KeeperPatternNew(a[1], a[2], a[3], a[4], a[5], a[6],
                                     a[7]))
    /\ UNCHANGED <<pend, rels, dicts, repo>>

\* k1.validate(), then k2.validate()
KeeperValidate ==
    /\ Len(heap) = 2
    /\ \/ last.op = "KeeperPattern"
       \/ last.op = "validate" /\ last.of = 1
    /\ LET i == IF last.op = "validate" THEN 2 ELSE 1
       IN  Called("validate", <<>>, i, KeeperPatternValidate(heap[i]))
    /\ UNCHANGED <<pend, rels, dicts, repo>>

NextKeeper == KeeperNew \/ KeeperValidate

SpecKeeper == InitKeeper /\ [][NextKeeper]_vars

\* what a caller sees of a validate() call: that it returned, or the class
\* of the error it raised
Outcome(r) == IF r.ok THEN <<"returns">> ELSE <<"raises", r.err>>

====
